---- MODULE Spec2Model ----
(***************************************************************************)
(* Model of the WeChat API client of auto-wx-post (package wechat, kept in *)
(* src/internal/logger/logger.go from line 66 on): the access-token cache  *)
(* guarded by tokenMutex (GetAccessToken / refreshToken) and the retrying  *)
(* request executor (doRequestWithRetry).                                  *)
(*                                                                         *)
(* Time is counted in whole seconds (time.Second is the unit of BaseDelay  *)
(* and of expires_in).  Every goroutine calling GetAccessToken is a        *)
(* process of Callers; its position in the code is pc[p].                  *)
(***************************************************************************)
EXTENDS Integers, Sequences, FiniteSets, TLC

\* ---------------------------------------------------------------- bounds
NumCallers == 2
MaxCalls == 3
MaxTime == 4
MaxRetriesBound == 2
NumTargets == 2
MaxConcurrent == 2
MaxPublishes == 2
NumCacheUsers == 2
DraftBodyLen == 2
MaxCleanups == 2
MaxRequests == 2

\* ------------------------------------------------------ program constants
\* refreshToken: "response.ExpiresIn-300" (seconds)
SafetyMargin == 300
\* NewClient: BaseDelay: time.Second (one second, the unit of the clock)
BaseDelay == 1
\* doRequestWithRetry: resp.StatusCode >= 500
ServerErrorFloor == 500
\* doRequestWithRetry: http.StatusOK
StatusOK == 200
StatusConflict == 409
StatusInternalServerError == 500
StatusBadRequest == 400
StatusUnauthorized == 401
StatusNotFound == 404
StatusMethodNotAllowed == 405

Callers == 1..NumCallers

\* The goroutines of a publish run: one worker per image of the batch
\* (UploadImagesConcurrently starts one goroutine per path) and the
\* goroutine that called PublishArticle.
Workers == 1..NumTargets
Main == NumTargets + 1

\* every goroutine that may use the client
Procs == 1..(IF NumCallers > Main THEN NumCallers ELSE Main)

\* max_retries is unvalidated configuration (Config.Validate does not look
\* at it); -1 stands for the negative values.
RetryValues == -1..MaxRetriesBound

\* expires_in values the token endpoint may report
ExpiresInValues == {300, 301, 7200}

\* HTTP status codes the remote side may answer with; 0 in a history of
\* outcomes stands for "no response" (httpClient.Do or io.ReadAll failed).
NoResponse == 0
StatusValues == {200, 201, 404, 503}

\* A response of the remote side: the status and the JSON body.
\*   kind "token"   : {"access_token": <fresh>, "expires_in": expires}
\*   kind "errcode" : {"errcode": 40001, "errmsg": ...}
\*   kind "garbage" : not JSON
\* A token body comes with a 2xx status only.
Responses ==
    [status : {s \in StatusValues : s \in 200..299}, kind : {"token"},
     expires : ExpiresInValues]
    \cup [status : StatusValues, kind : {"errcode", "garbage"}, expires : {0}]

\* ------------------------------------------------------------------ errors
\* An error value: its own message, the status it carries (0: none) and the
\* message of the error it wraps with %w ("nil": wraps nothing / <nil>).
MkErr(k, s, w) == [kind |-> k, status |-> s, wraps |-> w]
NoErr == MkErr("nil", 0, "nil")
CtxErr == MkErr("context canceled", 0, "nil")
ConnErr == MkErr("connection failure", 0, "nil")
ServerErr(s) == MkErr("server error", s, "nil")
HttpErr(s) == MkErr("http error", s, "nil")
ParseErr == MkErr("parse response", 0, "nil")
\* fmt.Errorf("max retries exceeded: %w", lastErr)
ExhaustedErr_NoWrap(last) == MkErr("max retries exceeded", 0, "nil")
ExhaustedErr(last) == MkErr("max retries exceeded", last.status, last.kind)

\* the anonymous response struct of refreshToken, zero-valued
ZeroResponse == [AccessToken |-> 0, ExpiresIn |-> 0, ErrCode |-> 0]

\* what GetAccessToken returned: (token, nil) or ("", error)
NoResult == [kind |-> "none", token |-> 0, cause |-> NoErr]
OkResult(t) == [kind |-> "ok", token |-> t, cause |-> NoErr]
ErrResult(k, e) == [kind |-> k, token |-> 0, cause |-> e]

VARIABLES
    now,          \* time.Now(), in seconds
    maxRetries,   \* c.retryConfig.MaxRetries
    token,        \* c.token.AccessToken; 0 when c.token == nil
    expiresAt,    \* c.token.ExpiresAt
    tokenMutex,   \* holder of the exclusive lock of c.tokenMutex; 0: free
    sent,         \* requests that reached the token endpoint so far
    calls,        \* GetAccessToken calls started so far
    lateCall,     \* some call started after another call had returned
    allSuccess,   \* every attempt so far was answered with 200 + token
    pc,           \* position of each caller
    ctxDone,      \* ctx.Done() of the caller's context is closed
    i,            \* loop variable of doRequestWithRetry
    lastErr,      \* lastErr of doRequestWithRetry
    waitUntil,    \* when the timer of time.After(delay) fires
    waits,        \* delays waited in this doRequestWithRetry call
    outcomes,     \* status of each attempt of this call (0: no response)
    attempts,     \* httpClient.Do calls of this doRequestWithRetry call
    sentBy,       \* requests of this call that reached the endpoint
    response,     \* result decoded by json.Unmarshal
    reqErr,       \* error returned by doRequestWithRetry
    bodyLeft,     \* bytes not yet read from the body io.Reader of the call
    bodySent,     \* size of the body each request of this call carried
    result        \* what GetAccessToken returned

\* the media manager, one UploadImagesConcurrently batch at a time, and the
\* PublishArticle run around it
VARIABLES
    maxConcurrent, \* the maxConcurrent argument (publish.concurrent_uploads)
    imagePaths,    \* the imagePaths argument: the path of each worker
    batchCtx,      \* the ctx of the publish run is done
    mpc,           \* position of the goroutine running PublishArticle
    upc,           \* position of each worker goroutine
    semaphore,     \* number of elements in the semaphore channel
    results,       \* results map of the batch: path -> ImageInfo
    errChan,       \* errors sent to errChan
    retResults,    \* the map UploadImagesConcurrently returned
    retErrs,       \* the errors of the aggregate error it returned
    draft,         \* the article PublishArticle built for AddDraft
    store,         \* m.store of the cache manager: key -> value
    tempFiles,     \* m.tempFiles of the media manager
    disk,          \* temporary files that exist in cfg.TempDir
    cleanups,      \* calls of Cleanup that returned
    cleanRet,      \* what the last Cleanup returned
    uinfo,         \* ImageInfo produced by the worker's UploadImage
    uerr,          \* error returned by the worker's UploadImage
    upost,         \* response read by the worker's upload request
    cacheHit,      \* the worker's UploadImage found its key in the cache
    downloads,     \* download requests sent by each worker in this batch
    tokenCalls,    \* GetAccessToken calls of each worker in this batch
    posts,         \* upload requests sent by each worker in this batch
    uploads,       \* upload requests sent for each path, all batches
    publishes,     \* PublishArticle calls started so far
    processed,     \* the document's digest is in the cache
    pubErr         \* what PublishArticle returned

\* the entry points around PublishArticle (HTTP handler, MCP tool, CLI loop)
VARIABLES
    entry,         \* which entry point is serving a publish request
    force,         \* the force argument of the request
    reply          \* what the entry point answered

\* the HTTP server in front of the handlers (SetupRoutes), serving one
\* request at a time
VARIABLES
    apiKey,        \* s.apiKey, "" when the server runs without a key
    req,           \* the request in service: method, path, Authorization
    hpc,           \* where the request is in the chain of SetupRoutes
    hstatus,       \* status code written to the response (0: none yet)
    requests       \* requests received so far

\* the cache manager seen on its own: its store file, and goroutines that
\* call Get, Set, Clear and Size on it
VARIABLES
    file,          \* content of the store file (cache.store_file)
    managerUp,     \* outcome of the last NewManager
    cpc,           \* position of each goroutine inside its cache call
    cop,           \* the call of each goroutine: operation, key, value
    csnap,         \* entries collected by save before it writes the file
    cret,          \* what the last call of each goroutine returned
    cmutex,        \* holder of m.mutex in write mode (0: nobody)
    creaders       \* holders of m.mutex in read mode

httpVars == <<apiKey, req, hpc, hstatus, requests>>
svcVars == <<entry, force, reply, httpVars>>
cacheProcVars == <<managerUp, cpc, cop, csnap, cret, cmutex, creaders>>
cacheVars == <<file, cacheProcVars>>

mediaVars == <<svcVars, cacheVars, maxConcurrent, imagePaths, batchCtx, mpc, upc,
               semaphore, results, errChan, retResults, retErrs, draft,
               store,
               tempFiles, disk, cleanups, cleanRet, uinfo, uerr, upost,
               cacheHit, downloads,
               tokenCalls, posts, uploads, publishes, processed,
               pubErr>>

tokenVars == <<token, expiresAt>>
histVars == <<sent, calls, lateCall, allSuccess>>
bodyVars == <<bodyLeft, bodySent>>
retryVars == <<i, lastErr, waitUntil, waits, outcomes, attempts, sentBy,
               response, reqErr, bodyVars>>
vars == <<now, maxRetries, token, expiresAt, tokenMutex, sent, calls,
          lateCall, allSuccess, pc, ctxDone, i, lastErr, waitUntil, waits,
          outcomes, attempts, sentBy, response, reqErr, bodyLeft, bodySent,
          result, mediaVars>>

\* ------------------------------------------------------------ image refs
\* An image reference of a document: a remote URL or a local path.
Refs == {[remote |-> TRUE, name |-> 1], [remote |-> FALSE, name |-> 2]}

\* isURL: the reference starts with http:// or https://
IsURL(ref) == ref.remote

\* error of a worker or of PublishArticle: the operation that failed, the
\* message of the error it wraps, the HTTP status it carries and the
\* innermost error
WErr(o, k, s, r) == [op |-> o, kind |-> k, status |-> s, root |-> r]
NoWErr == WErr("nil", "nil", 0, "nil")

\* ImageInfo{MediaID, URL}; strings are sequences of characters
NoInfo == [MediaID |-> << >>, URL |-> << >>]
NoDraft == [ThumbMediaID |-> << >>, Content |-> << >>]
NoPost == [status |-> NoResponse, kind |-> "none"]

\* the goroutines that use the cache manager directly
CacheUsers == 1..NumCacheUsers

\* the store file: absent, present but not readable as a JSON list, or a
\* JSON list of entries {key, value, timestamp}
AbsentFile == [kind |-> "absent", entries |-> {}]
BadFile == [kind |-> "unreadable", entries |-> {}]
ListFile(es) == [kind |-> "list", entries |-> es]

NoCall == [op |-> "none", key |-> << >>, value |-> << >>]
NoReturn == [err |-> "nil", value |-> << >>, found |-> FALSE, size |-> 0]

\* what an entry point answers: the outcome and, for the HTTP endpoint,
\* the status code (0: no HTTP response)
MkReply(o, st) == [outcome |-> o, status |-> st]
NoReply == MkReply("none", 0)

\* a string is the sequence of its pieces; "" is the empty sequence
EmptyString == << >>

\* a request: r.Method, r.URL.Path, r.Header.Get("Authorization")
MkRequest(m, p, h) == [method |-> m, path |-> p, auth |-> h]
NoRequest == MkRequest("none", "none", EmptyString)

\* the HTTP server has not received a request
HTTPIdle ==
    /\ req = NoRequest
    /\ hpc = "idle"
    /\ hstatus = 0
    /\ requests = 0

\* no request is being served; the HTTP server has no API key
ServiceIdle ==
    /\ entry = "none"
    /\ force = FALSE
    /\ reply = NoReply
    /\ apiKey = EmptyString
    /\ HTTPIdle

\* NewManager found no store file; nobody is inside a cache call
CacheIdle ==
    /\ file = AbsentFile
    /\ managerUp = "up"
    /\ cpc = [u \in CacheUsers |-> "idle"]
    /\ cop = [u \in CacheUsers |-> NoCall]
    /\ csnap = [u \in CacheUsers |-> {}]
    /\ cret = [u \in CacheUsers |-> NoReturn]
    /\ cmutex = 0
    /\ creaders = {}

\* the media manager and the publisher before any PublishArticle call
MediaIdle ==
    /\ maxConcurrent = 0
    /\ imagePaths = [w \in Workers |-> CHOOSE r \in Refs : r.remote]
    /\ batchCtx = FALSE
    /\ mpc = "idle"
    /\ upc = [w \in Workers |-> "none"]
    /\ semaphore = 0
    /\ results = << >>
    /\ errChan = {}
    /\ retResults = << >>
    /\ retErrs = {}
    /\ draft = NoDraft
    /\ store = << >>
    /\ tempFiles = {}
    /\ disk = {}
    /\ cleanups = 0
    /\ cleanRet = "none"
    /\ uinfo = [w \in Workers |-> NoInfo]
    /\ uerr = [w \in Workers |-> NoWErr]
    /\ upost = [w \in Workers |-> NoPost]
    /\ cacheHit = [w \in Workers |-> FALSE]
    /\ downloads = [w \in Workers |-> 0]
    /\ tokenCalls = [w \in Workers |-> 0]
    /\ posts = [w \in Workers |-> 0]
    /\ uploads = [r \in Refs |-> 0]
    /\ publishes = 0
    /\ processed = FALSE
    /\ pubErr = NoWErr

\* the client after NewClient
ClientInit ==
    /\ now = 0
    /\ maxRetries \in RetryValues
    /\ token = 0
    /\ expiresAt = 0
    /\ tokenMutex = 0
    /\ sent = 0
    /\ calls = 0
    /\ lateCall = FALSE
    /\ allSuccess = TRUE
    /\ pc = [p \in Procs |-> "idle"]
    /\ ctxDone = [p \in Procs |-> FALSE]
    /\ i = [p \in Procs |-> 0]
    /\ lastErr = [p \in Procs |-> NoErr]
    /\ waitUntil = [p \in Procs |-> 0]
    /\ waits = [p \in Procs |-> << >>]
    /\ outcomes = [p \in Procs |-> << >>]
    /\ attempts = [p \in Procs |-> 0]
    /\ sentBy = [p \in Procs |-> 0]
    /\ response = [p \in Procs |-> ZeroResponse]
    /\ reqErr = [p \in Procs |-> NoErr]
    /\ bodyLeft = [p \in Procs |-> 0]
    /\ bodySent = [p \in Procs |-> << >>]
    /\ result = [p \in Procs |-> NoResult]

\* the client used on its own: the media manager stays idle
Init == ClientInit /\ MediaIdle /\ ServiceIdle /\ CacheIdle

\* ------------------------------------------------------------ environment
\* the clock advances
Tick ==
    /\ now < MaxTime
    /\ now' = now + 1
    /\ UNCHANGED <<maxRetries, mediaVars, tokenVars, tokenMutex, histVars, pc, ctxDone,
                   retryVars, result>>

\* the caller's context is cancelled while its call is running
Cancel(p) ==
    /\ pc[p] \notin {"idle", "done"}
    /\ ~ctxDone[p]
    /\ ctxDone' = [ctxDone EXCEPT ![p] = TRUE]
    /\ UNCHANGED <<now, maxRetries, mediaVars, tokenVars, tokenMutex, histVars, pc,
                   retryVars, result>>

\* --------------------------------------------------------- GetAccessToken
\* c.token != nil && time.Now().Before(c.token.ExpiresAt)
TokenValid == token # 0 /\ now < expiresAt

\* a goroutine calls GetAccessToken(ctx) with a fresh context
GetAccessToken_Call(p) ==
    /\ pc[p] \in {"idle", "done"}
    /\ calls < MaxCalls
    /\ calls' = calls + 1
    /\ lateCall' = (lateCall \/ \E q \in Callers : pc[q] = "done")
    /\ pc' = [pc EXCEPT ![p] = "rlock"]
    /\ result' = [result EXCEPT ![p] = NoResult]
    /\ UNCHANGED <<now, maxRetries, mediaVars, tokenVars, tokenMutex, sent, allSuccess,
                   ctxDone, retryVars>>

\* RLock .. RUnlock: the fast path.  A reader cannot enter while a writer
\* holds the lock, and does not block otherwise.
GetAccessToken_RLock(p) ==
    /\ pc[p] = "rlock"
    /\ tokenMutex = 0
    /\ IF TokenValid
         THEN /\ pc' = [pc EXCEPT ![p] = "done"]
              /\ result' = [result EXCEPT ![p] = OkResult(token)]
              /\ ctxDone' = [ctxDone EXCEPT ![p] = FALSE]
         ELSE /\ pc' = [pc EXCEPT ![p] = "lock"]
              /\ UNCHANGED <<result, ctxDone>>
    /\ UNCHANGED <<now, maxRetries, mediaVars, tokenVars, tokenMutex, histVars,
                   retryVars>>

\* c.tokenMutex.Lock() goes through when nobody holds the lock
LockFree_Always == TRUE
LockFree == tokenMutex = 0

\* Lock, the double check, and the entry into refreshToken and
\* doRequestWithRetry (lastErr = nil, i = 0).  The deferred Unlock runs
\* when the double check returns.
GetAccessToken_Lock(p) ==
    /\ pc[p] = "lock"
    /\ LockFree
    /\ IF TokenValid
         THEN /\ pc' = [pc EXCEPT ![p] = "done"]
              /\ result' = [result EXCEPT ![p] = OkResult(token)]
              /\ ctxDone' = [ctxDone EXCEPT ![p] = FALSE]
              /\ UNCHANGED tokenMutex
         ELSE /\ pc' = [pc EXCEPT ![p] = "loop"]
              /\ tokenMutex' = p
              /\ UNCHANGED <<result, ctxDone>>
    /\ UNCHANGED <<now, maxRetries, mediaVars, tokenVars, histVars, retryVars>>

\* ----------------------------------------------------- doRequestWithRetry
\* for i := 0; i <= c.retryConfig.MaxRetries; i++
LoopContinues_OneMore(n, m) == n <= m + 1
LoopContinues(n, m) == n <= m

\* delay := c.retryConfig.BaseDelay * time.Duration(1<<uint(i-1))
Delay_OffByOne(n) == BaseDelay * (2 ^ n)
Delay(n) == BaseDelay * (2 ^ (n - 1))

\* if resp.StatusCode >= 500 { lastErr = ...; continue }
Retryable_AnyFailure(status) == status # StatusOK
Retryable(status) == status >= ServerErrorFloor

\* if resp.StatusCode != http.StatusOK { return fmt.Errorf("http error...") }
IsSuccess(status) == status = StatusOK

\* json.Unmarshal(respBody, result) into the response struct of
\* refreshToken; tok is the token the endpoint generated for this answer
\* (the number of the request it answers: every answer carries a new token)
Unmarshal(r, tok) ==
    IF r.kind = "token"
      THEN [AccessToken |-> tok, ExpiresIn |-> r.expires, ErrCode |-> 0]
      ELSE [AccessToken |-> 0, ExpiresIn |-> 0, ErrCode |-> 40001]

\* head of the for loop: the loop condition, then "if i > 0" starts the
\* timer of the backoff wait
doRequestWithRetry_Loop(p) ==
    /\ pc[p] = "loop"
    /\ IF ~LoopContinues(i[p], maxRetries)
         THEN /\ reqErr' = [reqErr EXCEPT ![p] = ExhaustedErr(lastErr[p])]
              /\ pc' = [pc EXCEPT ![p] = "ret"]
              /\ UNCHANGED <<waitUntil, waits>>
         ELSE IF i[p] > 0
           THEN /\ waitUntil' = [waitUntil EXCEPT ![p] = now + Delay(i[p])]
                /\ waits' = [waits EXCEPT ![p] = Append(@, Delay(i[p]))]
                /\ pc' = [pc EXCEPT ![p] = "wait"]
                /\ UNCHANGED reqErr
           ELSE /\ pc' = [pc EXCEPT ![p] = "do"]
                /\ UNCHANGED <<reqErr, waitUntil, waits>>
    /\ UNCHANGED <<now, maxRetries, mediaVars, tokenVars, tokenMutex, histVars, ctxDone,
                   i, lastErr, outcomes, attempts, sentBy, response, bodyVars,
                   result>>

\* select { case <-ctx.Done(): return ctx.Err(); case <-time.After(delay): }
\* The timer is not ready when the select is entered (delay >= 1s), so the
\* first of the two events decides: a context that is done before the timer
\* fires aborts the call.
doRequestWithRetry_Backoff_IgnoreCtx(p) ==
    /\ pc[p] = "wait"
    /\ now >= waitUntil[p]
    /\ pc' = [pc EXCEPT ![p] = "do"]
    /\ UNCHANGED <<now, maxRetries, mediaVars, tokenVars, tokenMutex, histVars, ctxDone,
                   retryVars, result>>
doRequestWithRetry_Backoff(p) ==
    /\ pc[p] = "wait"
    /\ \/ /\ ctxDone[p]
          /\ reqErr' = [reqErr EXCEPT ![p] = CtxErr]
          /\ pc' = [pc EXCEPT ![p] = "ret"]
       \/ /\ ~ctxDone[p]
          /\ now >= waitUntil[p]
          /\ pc' = [pc EXCEPT ![p] = "do"]
          /\ UNCHANGED reqErr
    /\ UNCHANGED <<now, maxRetries, mediaVars, tokenVars, tokenMutex, histVars, ctxDone,
                   i, lastErr, waitUntil, waits, outcomes, attempts, sentBy,
                   response, bodyVars, result>>

\* http.NewRequestWithContext + c.httpClient.Do(req): the request goes out,
\* unless the context is already done, in which case Do fails at once
\* without touching the network (lastErr = err; continue).  The request
\* is built around the body io.Reader the caller passed in: it carries
\* what is still unread in that reader.
doRequestWithRetry_Do(p) ==
    /\ pc[p] = "do"
    /\ attempts' = [attempts EXCEPT ![p] = @ + 1]
    /\ IF ctxDone[p]
         THEN /\ lastErr' = [lastErr EXCEPT ![p] = CtxErr]
              /\ outcomes' = [outcomes EXCEPT ![p] = Append(@, NoResponse)]
              /\ i' = [i EXCEPT ![p] = @ + 1]
              /\ pc' = [pc EXCEPT ![p] = "loop"]
              /\ allSuccess' = FALSE
              /\ UNCHANGED <<sent, sentBy, bodySent>>
         ELSE /\ sent' = sent + 1
              /\ sentBy' = [sentBy EXCEPT ![p] = @ + 1]
              /\ bodySent' = [bodySent EXCEPT ![p] = Append(@, bodyLeft[p])]
              /\ pc' = [pc EXCEPT ![p] = "inflight"]
              /\ UNCHANGED <<lastErr, outcomes, i, allSuccess>>
    /\ UNCHANGED <<now, maxRetries, mediaVars, tokenVars, tokenMutex, calls, lateCall,
                   ctxDone, waitUntil, waits, response, reqErr, bodyLeft,
                   result>>

\* c.httpClient.Do or io.ReadAll returns an error (connection failure, or
\* the context was cancelled while the request was in flight):
\* lastErr = err; continue.  The transport had read none, some or all
\* of the body when it failed.
doRequestWithRetry_DoFails(p) ==
    /\ pc[p] = "inflight"
    /\ lastErr' = [lastErr EXCEPT ![p] = IF ctxDone[p] THEN CtxErr ELSE ConnErr]
    /\ outcomes' = [outcomes EXCEPT ![p] = Append(@, NoResponse)]
    /\ i' = [i EXCEPT ![p] = @ + 1]
    /\ pc' = [pc EXCEPT ![p] = "loop"]
    /\ allSuccess' = FALSE
    /\ \E n \in 0..bodyLeft[p] : bodyLeft' = [bodyLeft EXCEPT ![p] = n]
    /\ UNCHANGED <<now, maxRetries, mediaVars, tokenVars, tokenMutex, sent, calls,
                   lateCall, ctxDone, waitUntil, waits, attempts, sentBy,
                   response, reqErr, bodySent, result>>

\* a response r was read completely: classify its status, decode its
\* body; the request was written, so its body reader is at its end
doRequestWithRetry_Response(p, r) ==
    /\ pc[p] = "inflight"
    /\ ~ctxDone[p]
    /\ bodyLeft' = [bodyLeft EXCEPT ![p] = 0]
    /\ outcomes' = [outcomes EXCEPT ![p] = Append(@, r.status)]
    /\ allSuccess' = (allSuccess /\ r.status = StatusOK /\ r.kind = "token")
    /\ IF Retryable(r.status)
         THEN /\ lastErr' = [lastErr EXCEPT ![p] = ServerErr(r.status)]
              /\ i' = [i EXCEPT ![p] = @ + 1]
              /\ pc' = [pc EXCEPT ![p] = "loop"]
              /\ UNCHANGED <<response, reqErr>>
         ELSE /\ pc' = [pc EXCEPT ![p] = "ret"]
              /\ UNCHANGED <<lastErr, i>>
              /\ IF ~IsSuccess(r.status)
                   THEN /\ reqErr' = [reqErr EXCEPT ![p] = HttpErr(r.status)]
                        /\ UNCHANGED response
                   ELSE IF r.kind = "garbage"
                     THEN /\ reqErr' = [reqErr EXCEPT ![p] = ParseErr]
                          /\ UNCHANGED response
                     ELSE /\ reqErr' = [reqErr EXCEPT ![p] = NoErr]
                          /\ response' = [response EXCEPT
                                            ![p] = Unmarshal(r, sent)]
    /\ UNCHANGED <<now, maxRetries, mediaVars, tokenVars, tokenMutex, sent, calls,
                   lateCall, ctxDone, waitUntil, waits, attempts, sentBy,
                   bodySent, result>>

\* ----------------------------------------------------------- refreshToken
\* expiresAt := time.Now().Add(time.Duration(response.ExpiresIn-300) * time.Second)
ExpiryOf_NoMargin(t, expiresIn) == t + expiresIn
ExpiryOf(t, expiresIn) == t + (expiresIn - SafetyMargin)

\* the two early returns of refreshToken: the request failed, or the body
\* carries errcode != 0
RefreshFailed_IgnoreErrCode(err, resp) == err # NoErr
RefreshFailed(err, resp) == err # NoErr \/ resp.ErrCode # 0

\* the rest of refreshToken after doRequestWithRetry returned, and the
\* deferred Unlock of GetAccessToken; the call is over, its context and
\* the locals of the two functions are gone
refreshToken_Return(p) ==
    /\ pc[p] = "ret"
    /\ tokenMutex = p
    /\ tokenMutex' = 0
    /\ pc' = [pc EXCEPT ![p] = "done"]
    /\ IF RefreshFailed(reqErr[p], response[p])
         THEN /\ result' = [result EXCEPT ![p] =
                    IF reqErr[p] # NoErr
                      THEN ErrResult("fetch access token", reqErr[p])
                      ELSE ErrResult("wechat api error",
                                     MkErr("errcode", response[p].ErrCode, "nil"))]
              /\ UNCHANGED tokenVars
         ELSE /\ token' = response[p].AccessToken
              /\ expiresAt' = ExpiryOf(now, response[p].ExpiresIn)
              /\ result' = [result EXCEPT ![p] = OkResult(response[p].AccessToken)]
    /\ ctxDone' = [ctxDone EXCEPT ![p] = FALSE]
    /\ i' = [i EXCEPT ![p] = 0]
    /\ lastErr' = [lastErr EXCEPT ![p] = NoErr]
    /\ waitUntil' = [waitUntil EXCEPT ![p] = 0]
    /\ waits' = [waits EXCEPT ![p] = << >>]
    /\ outcomes' = [outcomes EXCEPT ![p] = << >>]
    /\ attempts' = [attempts EXCEPT ![p] = 0]
    /\ sentBy' = [sentBy EXCEPT ![p] = 0]
    /\ response' = [response EXCEPT ![p] = ZeroResponse]
    /\ reqErr' = [reqErr EXCEPT ![p] = NoErr]
    /\ bodyLeft' = [bodyLeft EXCEPT ![p] = 0]
    /\ bodySent' = [bodySent EXCEPT ![p] = << >>]
    /\ UNCHANGED <<now, maxRetries, mediaVars, histVars>>

\* ------------------------------------------------------------------- spec
Next ==
    \/ Tick
    \/ \E p \in Callers : Cancel(p)
    \/ \E p \in Callers : GetAccessToken_Call(p)
    \/ \E p \in Callers : GetAccessToken_RLock(p)
    \/ \E p \in Callers : GetAccessToken_Lock(p)
    \/ \E p \in Callers : doRequestWithRetry_Loop(p)
    \/ \E p \in Callers : doRequestWithRetry_Backoff(p)
    \/ \E p \in Callers : doRequestWithRetry_Do(p)
    \/ \E p \in Callers : doRequestWithRetry_DoFails(p)
    \/ \E p \in Callers, r \in Responses : doRequestWithRetry_Response(p, r)
    \/ \E p \in Callers : refreshToken_Return(p)

Spec == Init /\ [][Next]_vars

TypeOK ==
    /\ now \in 0..MaxTime
    /\ maxRetries \in RetryValues
    /\ tokenMutex \in {0} \cup Procs
    /\ \A p \in Procs :
         pc[p] \in {"idle", "rlock", "lock", "loop", "wait", "do",
                    "inflight", "ret", "done"}

\* ---------------------------------------------------------------- helpers
Last(seq) == seq[Len(seq)]
Returns(p) == pc[p] # "done" /\ pc'[p] = "done"
\* the attempt failed in a way the executor retries
RetryableOutcome(o) == o = NoResponse \/ o >= 500
\* doRequestWithRetry of caller p has returned to refreshToken
Returned(p) == pc[p] = "ret"

\* ------------------------------------------------------------------ C1
\* C1: when N >= 1 callers call GetAccessToken concurrently (every call
\* starts before any call has returned), no token is cached, the retry
\* policy allows an attempt and every attempt is answered with 200 and a
\* token, then exactly one request reaches the token endpoint and all N
\* callers return the same token.
C1_Singleflight ==
    ( /\ calls >= 1
      /\ ~lateCall
      /\ allSuccess
      /\ maxRetries >= 0
      /\ \A p \in Callers : pc[p] \in {"idle", "done"} )
    => /\ sent = 1
       /\ \A p \in Callers :
            pc[p] = "done" => result[p] = OkResult(1)

\* ------------------------------------------------------------------ C2
\* C2 (as claimed): one refresh cycle makes at most one round trip to the
\* token endpoint, whatever the endpoint answers.
C2_OneRoundTrip == \A p \in Callers : sentBy[p] <= 1

\* C2 (amended): one refresh cycle makes at most MaxRetries+1 round trips
\* to the token endpoint, all of them by the holder of the exclusive lock,
\* and every round trip but the last one ended in a connection failure or
\* a 5xx response.
C2_RoundTripsPerCycle ==
    \A p \in Callers :
        /\ sentBy[p] <= maxRetries + 1
        /\ sentBy[p] > 0 => tokenMutex = p
        /\ pc[p] = "inflight" =>
             \A k \in 1..Len(outcomes[p]) : RetryableOutcome(outcomes[p][k])
        /\ pc[p] # "inflight" =>
             \A k \in 1..(Len(outcomes[p]) - 1) :
                 RetryableOutcome(outcomes[p][k])

\* a refresh cycle that went to the endpoint three times
C2_Witness ==
    \E p \in Callers : sentBy[p] = 3 /\ outcomes[p] = <<503, NoResponse, 200>>

\* ------------------------------------------------------------------ C3
\* C3: a refresh that fails (request error or errcode != 0) makes
\* GetAccessToken return an error and leaves token and expiry as they
\* were; the stored token changes only when a refresh succeeds; and a
\* caller gets a token either from a refresh of its own that succeeded (the
\* token just fetched) or from the cache while it is unexpired.
C3_FailedRefreshKeepsToken ==
    [][ /\ \A p \in Callers :
             ( /\ pc[p] = "ret"
               /\ pc'[p] = "done"
               /\ (reqErr[p] # NoErr \/ response[p].ErrCode # 0) )
             => /\ token' = token
                /\ expiresAt' = expiresAt
                /\ result'[p].kind \in {"fetch access token", "wechat api error"}
                /\ result'[p].token = 0
        /\ (token' # token \/ expiresAt' # expiresAt)
             => \E p \in Callers :
                  /\ pc[p] = "ret"
                  /\ pc'[p] = "done"
                  /\ reqErr[p] = NoErr
                  /\ response[p].ErrCode = 0
                  /\ token' = response[p].AccessToken
        /\ \A p \in Callers :
             (Returns(p) /\ result'[p].kind = "ok")
             => \/ /\ pc[p] = "ret"
                   /\ sentBy[p] >= 1
                   /\ result'[p].token = sent
                   /\ token' = sent
                \/ /\ pc[p] \in {"rlock", "lock"}
                   /\ result'[p].token = token
                   /\ token # 0
                   /\ now < expiresAt
      ]_vars

\* request 1 failed with errcode != 0, its caller got the error, and the
\* call that sent request 2 returned the token of request 2
C3_Witness ==
    \E p, q \in Callers :
        /\ p # q
        /\ pc[p] = "done"
        /\ result[p].kind = "wechat api error"
        /\ pc[q] = "done"
        /\ result[q] = OkResult(2)
        /\ sent = 2
        /\ token = 2

\* ------------------------------------------------------------------ C4
\* C4: a successful refresh at time t with expires_in = T stores the expiry
\* t + T - 300; a call whose check runs at a time >= that expiry goes on to
\* refresh, and a call whose check runs before it returns the cached token
\* and sends nothing.
C4_ExpiryMargin ==
    [][ \A p \in Callers :
          /\ (pc[p] = "ret" /\ pc'[p] = "done" /\ result'[p].kind = "ok")
               => expiresAt' = now + response[p].ExpiresIn - 300
          /\ (pc[p] = "rlock" /\ pc'[p] # "rlock")
               => IF token # 0 /\ now < expiresAt
                    THEN /\ pc'[p] = "done"
                         /\ result'[p] = OkResult(token)
                         /\ sent' = sent
                    ELSE pc'[p] = "lock"
          /\ (pc[p] = "lock" /\ pc'[p] # "lock")
               => IF token # 0 /\ now < expiresAt
                    THEN /\ pc'[p] = "done"
                         /\ result'[p] = OkResult(token)
                         /\ sent' = sent
                    ELSE pc'[p] = "loop" /\ tokenMutex' = p
      ]_vars

\* token 1 (expires_in = 301) was fetched once and served from the cache to
\* a second call; at its expiry a third call is fetching again
C4_Witness ==
    /\ allSuccess
    /\ calls = 3
    /\ sent = 2
    /\ token = 1
    /\ now >= expiresAt
    /\ \E p, q \in Callers :
         /\ p # q
         /\ pc[p] = "inflight"
         /\ pc[q] = "done"
         /\ result[q] = OkResult(1)

\* ------------------------------------------------------------------ C5
\* C5: whenever GetAccessToken returns a token (fast path, double check or
\* fresh refresh), the stored expiry is strictly later than the time of
\* the return.
C5_ReturnedTokenUnexpired ==
    [][ \A p \in Callers :
          (Returns(p) /\ result'[p].kind = "ok") => now' < expiresAt' ]_vars

\* ------------------------------------------------------------------ C6
\* C6: doRequestWithRetry makes at most MaxRetries+1 attempts, and when it
\* has made MaxRetries+1 attempts that all were retryable failures it
\* returns "max retries exceeded" wrapping the failure of the last attempt.
C6_AttemptsAndExhaustion ==
    \A p \in Callers :
        /\ attempts[p] <= maxRetries + 1
        /\ ( /\ Returned(p)
             /\ attempts[p] >= 1
             /\ attempts[p] = maxRetries + 1
             /\ RetryableOutcome(Last(outcomes[p])) )
           => /\ reqErr[p].kind = "max retries exceeded"
              /\ IF Last(outcomes[p]) = NoResponse
                   THEN /\ reqErr[p].wraps
                             \in {"connection failure", "context canceled"}
                        /\ reqErr[p].status = 0
                   ELSE /\ reqErr[p].wraps = "server error"
                        /\ reqErr[p].status = Last(outcomes[p])

\* three attempts, the last answered 503: exhausted, wrapping that 503
C6_Witness ==
    \E p \in Callers :
        /\ Returned(p)
        /\ maxRetries = 2
        /\ outcomes[p] = <<NoResponse, 503, 503>>
        /\ reqErr[p] = MkErr("max retries exceeded", 503, "server error")

\* ------------------------------------------------------------------ C7
\* C7: no wait precedes the first attempt, the k-th wait of a call lasts
\* BaseDelay * 2^(k-1) and precedes attempt k+1, so the waits double; a
\* call answered 503, 503, 200 (decodable body) returns nil after exactly
\* the two waits BaseDelay and 2*BaseDelay.
C7_Backoff ==
    \A p \in Callers :
        /\ \A k \in 1..Len(waits[p]) : waits[p][k] = BaseDelay * (2 ^ (k - 1))
        /\ \A k \in 2..Len(waits[p]) : waits[p][k] = 2 * waits[p][k - 1]
        /\ pc[p] = "do" => Len(waits[p]) = attempts[p]
        /\ pc[p] = "inflight" => Len(waits[p]) = attempts[p] - 1
        /\ (pc[p] = "do" /\ attempts[p] > 0) => now >= waitUntil[p]
        /\ (Returned(p) /\ outcomes[p] = <<503, 503, 200>>)
             => /\ waits[p] = <<BaseDelay, 2 * BaseDelay>>
                /\ reqErr[p] \in {NoErr, ParseErr}
                /\ reqErr[p] = NoErr <=> response[p] # ZeroResponse

C7_Witness ==
    \E p \in Callers :
        /\ Returned(p)
        /\ outcomes[p] = <<503, 503, 200>>
        /\ waits[p] = <<1, 2>>
        /\ reqErr[p] = NoErr
        /\ response[p].AccessToken = 3

\* ------------------------------------------------------------------ C8
\* C8: a response whose status is neither 2xx nor 5xx ends the call at
\* once: doRequestWithRetry returns "http error" carrying that status, with
\* no wait and no attempt after it.
C8_TerminalStatus ==
    [][ \A p \in Callers :
          /\ ( /\ pc[p] = "inflight"
               /\ Len(outcomes'[p]) = Len(outcomes[p]) + 1
               /\ Last(outcomes'[p]) # NoResponse
               /\ Last(outcomes'[p]) \notin 200..299
               /\ Last(outcomes'[p]) < 500 )
             => /\ pc'[p] = "ret"
                /\ reqErr'[p] = MkErr("http error", Last(outcomes'[p]), "nil")
                /\ waits'[p] = waits[p]
                /\ attempts'[p] = attempts[p]
          /\ pc[p] = "ret"
             => /\ pc'[p] \in {"ret", "done"}
                /\ sentBy'[p] <= sentBy[p]
                /\ attempts'[p] <= attempts[p]
                /\ Len(waits'[p]) <= Len(waits[p])
      ]_vars

\* a 404 on the first attempt: one attempt, no wait
C8_Witness ==
    \E p \in Callers :
        /\ Returned(p)
        /\ outcomes[p] = <<404>>
        /\ reqErr[p] = HttpErr(404)
        /\ attempts[p] = 1
        /\ waits[p] = << >>
        /\ maxRetries >= 1

\* ------------------------------------------------------------------ C9
\* C9: a response with any status in 200..299 is a success: the call
\* returns nil with the body decoded (or the decoding error of a body that
\* is not JSON), never an HTTP error.
C9_Any2xxIsSuccess ==
    \A p \in Callers :
        ( /\ Returned(p)
          /\ outcomes[p] # << >>
          /\ Last(outcomes[p]) \in 200..299 )
        => /\ reqErr[p] \in {NoErr, ParseErr}
           /\ reqErr[p] = NoErr => response[p] # ZeroResponse

\* ------------------------------------------------------------------ C10
\* C10: once the context is done while doRequestWithRetry is in a backoff
\* wait, the call makes no further attempt: its next step returns the
\* context's error, whether or not the delay has elapsed.
C10_CancelDuringBackoff ==
    [][ \A p \in Callers :
          (pc[p] = "wait" /\ ctxDone[p])
          => /\ attempts'[p] = attempts[p]
             /\ sentBy'[p] = sentBy[p]
             /\ \/ pc'[p] = "wait" /\ reqErr'[p] = reqErr[p]
                \/ pc'[p] = "ret" /\ reqErr'[p] = CtxErr
      ]_vars

\* the call returned the context's error before its timer fired
C10_Witness ==
    \E p \in Callers :
        /\ Returned(p)
        /\ reqErr[p] = CtxErr
        /\ now < waitUntil[p]
        /\ attempts[p] = 1
        /\ sentBy[p] = 1

\* ======================================================================
\* The media manager (UploadImage, UploadImagesConcurrently), the upload
\* and draft calls of the client (UploadPermanentMedia, AddDraft) and
\* PublishArticle, which runs them in sequence.
\* ======================================================================
clientVars == <<now, maxRetries, tokenVars, tokenMutex, histVars, pc, ctxDone,
                retryVars, result>>
cfgVars == <<maxConcurrent, imagePaths>>
batchVars == <<results, errChan, retResults, retErrs, draft>>
cleanVars == <<cleanups, cleanRet>>
fsVars == <<tempFiles, disk, cleanVars>>
workerVars == <<uinfo, uerr, upost, cacheHit>>
countVars == <<downloads, tokenCalls, posts, uploads>>
pubVars == <<publishes, processed, pubErr>>
\* all of the above but the cache map and the mark of the document
pipelineVars == <<cfgVars, batchCtx, mpc, upc, semaphore, batchVars, fsVars,
                  workerVars, countVars, publishes, pubErr>>

\* ---------------------------------------------------------------- strings
\* decimal digit of a small number, as a character
Digit(n) == <<"0", "1", "2", "3", "4", "5", "6", "7", "8", "9">>[(n % 10) + 1]

\* what the remote side answers to upload number n of an image: a fresh
\* media id and the URL of the stored image
MediaInfo(ref, n) ==
    [MediaID |-> <<"m", Digit(ref.name), Digit(n)>>,
     URL |-> <<"u", Digit(ref.name), Digit(n)>>]

\* imageDigest: "img_" + md5(imagePath); the digest of a path stands for
\* itself, distinct paths have distinct digests
imageDigest(ref) == <<"img", ref.remote, ref.name>>

\* downloadImage: filepath.Join(TempDir, md5(imgURL) + ext)
TempPath(ref) == <<"tmp", ref.name>>

\* the temporary files the URLs of the model are downloaded to
TempPaths == {TempPath(r) : r \in {x \in Refs : IsURL(x)}}

\* cacheValue := fmt.Sprintf("%s|%s", info.MediaID, info.URL)
FormatInfo(info) == info.MediaID \o <<"|">> \o info.URL

IsSpace(c) == c = " "

\* first position >= pos of s that holds no space (Len(s)+1 if none)
RECURSIVE SkipSpace(_, _)
SkipSpace(s, pos) ==
    IF pos > Len(s) \/ ~IsSpace(s[pos]) THEN pos ELSE SkipSpace(s, pos + 1)

\* first position >= pos of s that holds a space (Len(s)+1 if none)
RECURSIVE TokenEnd(_, _)
TokenEnd(s, pos) ==
    IF pos > Len(s) \/ IsSpace(s[pos]) THEN pos ELSE TokenEnd(s, pos + 1)

\* the %s verb of fmt.Sscanf at position pos: skip leading spaces, then
\* take the characters up to the next space or the end of the input
ScanString(s, pos) ==
    LET from == SkipSpace(s, pos)
        to == TokenEnd(s, from)
    IN  [ok |-> to > from, tok |-> SubSeq(s, from, to - 1), next |-> to]

\* fmt.Sscanf(cached, "%s|%s", &mediaID, &url) in parseCachedInfo: a
\* string, the literal '|', a string
parseCachedInfo(cached) ==
    LET first == ScanString(cached, 1)
        second == ScanString(cached, first.next + 1)
    IN  IF ~first.ok
          THEN [err |-> "unexpected EOF", info |-> NoInfo]
        ELSE IF first.next > Len(cached)
          THEN [err |-> "unexpected EOF", info |-> NoInfo]
        ELSE IF cached[first.next] # "|"
          THEN [err |-> "input does not match format", info |-> NoInfo]
        ELSE IF ~second.ok
          THEN [err |-> "unexpected EOF", info |-> NoInfo]
        ELSE [err |-> "nil",
              info |-> [MediaID |-> first.tok, URL |-> second.tok]]

\* ----------------------------------------------------------- remote side
\* answers to an upload request (add_material)
\*   kind "media"   : {"media_id": ..., "url": ...}
\*   kind "errcode" : {"errcode": 40001, "errmsg": ...}
\*   kind "other"   : a JSON object with none of these fields
\*   kind "garbage" : not JSON
UploadResponses ==
    [status : {s \in StatusValues : s \in 200..299}, kind : {"media"}]
    \cup [status : StatusValues, kind : {"errcode", "other", "garbage"}]

\* answers to an image download: no response, 200, or another status
DownloadOutcomes == {NoResponse, 200, 404}

\* answers to a token or a draft request during a publish run
PublishResponses ==
    {r \in Responses : /\ r.status \in {StatusOK, 503}
                       /\ r.expires \in {0, 7200}
                       /\ r.kind # "garbage"}

\* answers to an upload request during a publish run
PublishUploadResponses == {r \in UploadResponses : r.status \in {StatusOK, 503}}

\* innermost error of an error of the client
Root(e) == IF e.wraps # "nil" THEN e.wraps ELSE e.kind

\* ------------------------------------------------------ the store file
\* FileDigest of the document, and the value MarkFileProcessed stores for
\* it ("<path>:<time>")
DocDigest == <<"doc">>
DocValue == <<"p", ":", "t">>

\* a byte that is not part of any UTF-8 sequence, as paths found by
\* filepath.Walk may hold, and the rune json.Marshal writes in its place
BadByte == "0xFF"
Replacement == "U+FFFD"
DocValueRaw == <<BadByte, ":", "t">>

\* json.MarshalIndent writes a string coerced to valid UTF-8: every
\* invalid byte becomes U+FFFD; json.Unmarshal reads back what was written
MarshalString(v) ==
    [j \in DOMAIN v |-> IF v[j] = BadByte THEN Replacement ELSE v[j]]

\* save: the entries of the map are collected into a list, one
\* {key, value} per key (the mark of the document is one of them), and
\* marshalled
Entries(st, marked) ==
    {[key |-> k, value |-> MarshalString(st[k])] : k \in DOMAIN st}
    \cup (IF marked /\ DocDigest \notin DOMAIN st
          THEN {[key |-> DocDigest, value |-> DocValue]} ELSE {})

\* load: m.store[entry.Key] = entry for each entry of the list
LoadStore(es) ==
    [k \in {e.key : e \in es} |-> (CHOOSE e \in es : e.key = k).value]
LoadMarked(es) == \E e \in es : e.key = DocDigest

\* os.WriteFile(m.storePath, data, 0644): the list is written; or the
\* file cannot be opened and stays as it is; or it was truncated and the
\* write failed, which leaves a file that is no JSON list
SaveOutcomes == {"written", "denied", "truncated"}
WriteFile(f, es, outcome) ==
    IF outcome = "written" THEN ListFile(es)
    ELSE IF outcome = "denied" THEN f
    ELSE BadFile

\* the error save returns
SaveError_Never(outcome) == "nil"
SaveError(outcome) ==
    IF outcome = "written" THEN "nil" ELSE "write cache file"

\* MarkFileProcessed: FileDigest fails, or Set runs with one of the
\* outcomes of save
MarkOutcomes == SaveOutcomes \cup {"no digest"}

\* ------------------------------------------------------------------ init
PublishRetryValues == {1}

PublishInit ==
    /\ ClientInit
    /\ ServiceIdle
    /\ CacheIdle
    /\ maxRetries \in PublishRetryValues
    /\ maxConcurrent \in 0..MaxConcurrent
    /\ imagePaths \in [Workers -> Refs]
    /\ batchCtx = FALSE
    /\ mpc = "idle"
    /\ upc = [w \in Workers |-> "none"]
    /\ semaphore = 0
    /\ results = << >>
    /\ errChan = {}
    /\ retResults = << >>
    /\ retErrs = {}
    /\ draft = NoDraft
    /\ store = << >>
    /\ tempFiles = {}
    /\ disk = {}
    /\ cleanups = 0
    /\ cleanRet = "none"
    /\ uinfo = [w \in Workers |-> NoInfo]
    /\ uerr = [w \in Workers |-> NoWErr]
    /\ upost = [w \in Workers |-> NoPost]
    /\ cacheHit = [w \in Workers |-> FALSE]
    /\ downloads = [w \in Workers |-> 0]
    /\ tokenCalls = [w \in Workers |-> 0]
    /\ posts = [w \in Workers |-> 0]
    /\ uploads = [r \in Refs |-> 0]
    /\ publishes = 0
    /\ processed = FALSE
    /\ pubErr = NoWErr

\* ----------------------------------------------------------- environment
\* time passes while a backoff timer is pending (nothing else reads the
\* clock during a publish run: tokens live for 7200 s)
TimerTick ==
    /\ \E p \in Procs : pc[p] = "wait" /\ now < waitUntil[p]
    /\ Tick

\* the ctx passed to PublishArticle is cancelled: every call that got it
\* sees ctx.Done() closed
CancelBatch ==
    /\ mpc \notin {"idle", "done"}
    /\ ~batchCtx
    /\ batchCtx' = TRUE
    /\ ctxDone' = [p \in Procs |->
                     IF pc[p] \notin {"idle", "done"} THEN TRUE ELSE ctxDone[p]]
    /\ UNCHANGED <<now, maxRetries, tokenVars, tokenMutex, histVars, pc,
                   retryVars, result>>
    /\ UNCHANGED <<cfgVars, svcVars, cacheVars, mpc, upc, semaphore, batchVars, store, fsVars,
                   workerVars, countVars, pubVars>>

\* ------------------------------------------------------- PublishArticle
\* IsFileProcessed (the digest of the file can be computed or not), the
\* skip of a processed document, ParseFile (which succeeds or not), then
\* UploadImagesConcurrently starts one goroutine per image path and waits
\* for them.  No document is published after main has run its deferred
\* Cleanup.
PublishArticle_Start(digested, parsed) ==
    /\ mpc \in {"idle", "done", "called"}
    /\ publishes < MaxPublishes
    /\ cleanups = 0
    /\ publishes' = publishes + 1
    /\ batchCtx' = FALSE
    /\ pubErr' = IF ~digested
                   THEN WErr("check cache", "open file", 0, "open file")
                 ELSE IF ~processed /\ ~parsed
                   THEN WErr("parse markdown", "read file", 0, "read file")
                 ELSE NoWErr
    /\ IF ~digested \/ processed \/ ~parsed
         THEN /\ mpc' = "done"
              /\ UNCHANGED <<upc, semaphore, batchVars, workerVars, downloads,
                             tokenCalls, posts>>
         ELSE /\ mpc' = "wait"
              /\ upc' = [w \in Workers |-> "spawned"]
              /\ semaphore' = 0
              /\ results' = << >>
              /\ errChan' = {}
              /\ retResults' = << >>
              /\ retErrs' = {}
              /\ draft' = NoDraft
              /\ uinfo' = [w \in Workers |-> NoInfo]
              /\ uerr' = [w \in Workers |-> NoWErr]
              /\ upost' = [w \in Workers |-> NoPost]
              /\ cacheHit' = [w \in Workers |-> FALSE]
              /\ downloads' = [w \in Workers |-> 0]
              /\ tokenCalls' = [w \in Workers |-> 0]
              /\ posts' = [w \in Workers |-> 0]
    /\ UNCHANGED <<clientVars, cfgVars, svcVars, cacheVars, store, fsVars, uploads,
                   processed>>

\* ---------------------------------------------- UploadImagesConcurrently
\* semaphore <- struct{}{} on a channel of capacity maxConcurrent
SemaphoreFree_OneMore(n, k) == n <= k
SemaphoreFree(n, k) == n < k

Worker_Acquire(w) ==
    /\ upc[w] = "spawned"
    /\ SemaphoreFree(semaphore, maxConcurrent)
    /\ semaphore' = semaphore + 1
    /\ upc' = [upc EXCEPT ![w] = "cache"]
    /\ UNCHANGED <<clientVars, cfgVars, svcVars, cacheVars, batchCtx, mpc, batchVars, store,
                   fsVars, workerVars, countVars, pubVars>>

\* ------------------------------------------------------------ UploadImage
\* cached, exists := m.cacheManager.Get(m.imageDigest(imagePath))
CacheHit_Never(st, key) == FALSE
CacheHit(st, key) == key \in DOMAIN st

\* the cache check: a hit returns parseCachedInfo(cached); a miss goes on
\* to the download of a URL or takes the local path as it is
UploadImage_CacheCheck(w) ==
    /\ upc[w] = "cache"
    /\ LET key == imageDigest(imagePaths[w])
       IN  IF CacheHit(store, key)
             THEN LET parsed == parseCachedInfo(store[key])
                  IN  /\ cacheHit' = [cacheHit EXCEPT ![w] = TRUE]
                      /\ uinfo' = [uinfo EXCEPT ![w] = parsed.info]
                      /\ uerr' = [uerr EXCEPT ![w] =
                             IF parsed.err = "nil"
                               THEN NoWErr
                               ELSE WErr("parse cached info", parsed.err, 0,
                                         parsed.err)]
                      /\ upc' = [upc EXCEPT ![w] = "ret"]
             ELSE /\ upc' = [upc EXCEPT ![w] =
                        IF IsURL(imagePaths[w]) THEN "download" ELSE "open"]
                  /\ UNCHANGED <<uinfo, uerr, cacheHit>>
    /\ UNCHANGED <<clientVars, cfgVars, svcVars, cacheVars, batchCtx, mpc, semaphore, batchVars,
                   store, fsVars, upost, countVars, pubVars>>

\* downloadImage: http.DefaultClient.Do(req) with the ctx of the batch; a
\* ctx that is done already fails the request before it is sent
downloadImage_Do(w) ==
    /\ upc[w] = "download"
    /\ IF batchCtx
         THEN /\ uerr' = [uerr EXCEPT ![w] =
                    WErr("download image", "context canceled", 0,
                         "context canceled")]
              /\ upc' = [upc EXCEPT ![w] = "ret"]
              /\ UNCHANGED downloads
         ELSE /\ downloads' = [downloads EXCEPT ![w] = @ + 1]
              /\ upc' = [upc EXCEPT ![w] = "dl_inflight"]
              /\ UNCHANGED uerr
    /\ UNCHANGED <<clientVars, cfgVars, svcVars, cacheVars, batchCtx, mpc, semaphore, batchVars,
                   store, fsVars, uinfo, upost, cacheHit, tokenCalls, posts,
                   uploads, pubVars>>

\* the download is answered (or fails; it fails when the ctx is done);
\* on 200 the temporary file is created
downloadImage_Response(w, st) ==
    /\ upc[w] = "dl_inflight"
    /\ batchCtx => st = NoResponse
    /\ IF st = 200
         THEN /\ disk' = disk \cup {TempPath(imagePaths[w])}
              /\ upc' = [upc EXCEPT ![w] = "dl_copy"]
              /\ UNCHANGED uerr
         ELSE /\ uerr' = [uerr EXCEPT ![w] =
                    IF st = NoResponse
                      THEN WErr("download image", "request failed", 0,
                                IF batchCtx THEN "context canceled"
                                            ELSE "connection failure")
                      ELSE WErr("download image", "http error", st,
                                "http error")]
              /\ upc' = [upc EXCEPT ![w] = "ret"]
              /\ UNCHANGED disk
    /\ UNCHANGED <<clientVars, cfgVars, svcVars, cacheVars, batchCtx, mpc, semaphore, batchVars,
                   store, tempFiles, cleanVars, uinfo, upost, cacheHit,
                   countVars, pubVars>>

\* io.Copy(file, resp.Body) succeeds, and UploadImage tracks the file, or
\* it fails and downloadImage returns the error
downloadImage_Copy(w, ok) ==
    /\ upc[w] = "dl_copy"
    /\ IF ok
         THEN /\ tempFiles' = tempFiles \cup {TempPath(imagePaths[w])}
              /\ upc' = [upc EXCEPT ![w] = "open"]
              /\ UNCHANGED uerr
         ELSE /\ uerr' = [uerr EXCEPT ![w] =
                    WErr("download image", "copy failed", 0,
                         IF batchCtx THEN "context canceled"
                                     ELSE "connection failure")]
              /\ upc' = [upc EXCEPT ![w] = "ret"]
              /\ UNCHANGED tempFiles
    /\ UNCHANGED <<clientVars, cfgVars, svcVars, cacheVars, batchCtx, mpc, semaphore, batchVars,
                   store, disk, cleanVars, uinfo, upost, cacheHit, countVars,
                   pubVars>>

\* --------------------------------------------------- UploadPermanentMedia
\* os.Open(filePath) succeeds or not; then the multipart body and
\* c.GetAccessToken(ctx)
UploadPermanentMedia_Open(w, opened) ==
    /\ upc[w] = "open"
    /\ pc[w] = "idle"
    /\ IF ~opened
         THEN /\ uerr' = [uerr EXCEPT ![w] =
                    WErr("upload to wechat", "open file", 0, "open file")]
              /\ upc' = [upc EXCEPT ![w] = "ret"]
              /\ UNCHANGED <<pc, ctxDone, result, tokenCalls>>
         ELSE /\ pc' = [pc EXCEPT ![w] = "rlock"]
              /\ ctxDone' = [ctxDone EXCEPT ![w] = batchCtx]
              /\ result' = [result EXCEPT ![w] = NoResult]
              /\ tokenCalls' = [tokenCalls EXCEPT ![w] = @ + 1]
              /\ upc' = [upc EXCEPT ![w] = "token"]
              /\ UNCHANGED uerr
    /\ UNCHANGED <<now, maxRetries, tokenVars, tokenMutex, histVars,
                   retryVars>>
    /\ UNCHANGED <<cfgVars, svcVars, cacheVars, batchCtx, mpc, semaphore, batchVars, store,
                   fsVars, uinfo, upost, cacheHit, downloads, posts, uploads,
                   pubVars>>

\* GetAccessToken returned: its error is returned, otherwise
\* c.httpClient.Post(url, contentType, body) sends the file; Post takes
\* no ctx, so the request goes out whatever the state of the ctx
UploadPermanentMedia_Post(w) ==
    /\ upc[w] = "token"
    /\ pc[w] = "done"
    /\ pc' = [pc EXCEPT ![w] = "idle"]
    /\ result' = [result EXCEPT ![w] = NoResult]
    /\ IF result[w].kind # "ok"
         THEN /\ uerr' = [uerr EXCEPT ![w] =
                    WErr("upload to wechat", result[w].kind,
                         result[w].cause.status, Root(result[w].cause))]
              /\ upc' = [upc EXCEPT ![w] = "ret"]
              /\ UNCHANGED <<posts, uploads>>
         ELSE /\ posts' = [posts EXCEPT ![w] = @ + 1]
              /\ uploads' = [uploads EXCEPT ![imagePaths[w]] = @ + 1]
              /\ upc' = [upc EXCEPT ![w] = "post_inflight"]
              /\ UNCHANGED uerr
    /\ UNCHANGED <<now, maxRetries, tokenVars, tokenMutex, histVars, ctxDone,
                   retryVars>>
    /\ UNCHANGED <<cfgVars, svcVars, cacheVars, batchCtx, mpc, semaphore, batchVars, store,
                   fsVars, uinfo, upost, cacheHit, downloads, tokenCalls,
                   pubVars>>

\* Post returns an error (connection failure, client timeout): the error
\* is returned, nothing is sent again
UploadPermanentMedia_PostFails(w) ==
    /\ upc[w] = "post_inflight"
    /\ uerr' = [uerr EXCEPT ![w] =
          WErr("upload to wechat", "upload media", NoResponse,
               "connection failure")]
    /\ upc' = [upc EXCEPT ![w] = "ret"]
    /\ UNCHANGED <<clientVars, cfgVars, svcVars, cacheVars, batchCtx, mpc, semaphore, batchVars,
                   store, fsVars, uinfo, upost, cacheHit, countVars, pubVars>>

\* if result.ErrCode != 0 { return nil, fmt.Errorf("wechat error: ...") }
UploadRejected_IgnoreErrCode(r) == FALSE
UploadRejected(r) == r.kind = "errcode"

\* Post returned a response: the body is decoded and the errcode checked;
\* resp.StatusCode is not read
UploadPermanentMedia_Response(w, r) ==
    /\ upc[w] = "post_inflight"
    /\ upost' = [upost EXCEPT ![w] = r]
    /\ IF r.kind = "garbage"
         THEN /\ uerr' = [uerr EXCEPT ![w] =
                    WErr("upload to wechat", "decode response", r.status,
                         "decode response")]
              /\ upc' = [upc EXCEPT ![w] = "ret"]
              /\ UNCHANGED uinfo
         ELSE IF UploadRejected(r)
           THEN /\ uerr' = [uerr EXCEPT ![w] =
                      WErr("upload to wechat", "wechat error", r.status,
                           "errcode")]
                /\ upc' = [upc EXCEPT ![w] = "ret"]
                /\ UNCHANGED uinfo
           ELSE /\ uinfo' = [uinfo EXCEPT ![w] =
                      IF r.kind = "media"
                        THEN MediaInfo(imagePaths[w], uploads[imagePaths[w]])
                                          ELSE NoInfo]
                /\ upc' = [upc EXCEPT ![w] = "set"]
                /\ UNCHANGED uerr
    /\ UNCHANGED <<clientVars, cfgVars, svcVars, cacheVars, batchCtx, mpc, semaphore, batchVars,
                   store, fsVars, cacheHit, countVars, pubVars>>

\* m.cacheManager.Set(digest, cacheValue): the in-memory entry is written
\* and the store is saved; a failure to save it is only logged
UploadImage_CacheSet(w, saved) ==
    /\ upc[w] = "set"
    /\ store' = (imageDigest(imagePaths[w]) :> FormatInfo(uinfo[w])) @@ store
    /\ file' = WriteFile(file, Entries(store', processed), saved)
    /\ upc' = [upc EXCEPT ![w] = "ret"]
    /\ UNCHANGED <<clientVars, cfgVars, svcVars, cacheProcVars, batchCtx, mpc, semaphore, batchVars,
                   fsVars, workerVars, countVars, pubVars>>

\* the goroutine of UploadImagesConcurrently after UploadImage returned:
\* errChan <- err, or results[path] = info under the mutex; then the
\* deferred <-semaphore and wg.Done()
Worker_Return(w) ==
    /\ mpc = "wait"
    /\ upc[w] = "ret"
    /\ IF uerr[w] # NoWErr
         THEN /\ errChan' = errChan \cup
                    {[worker |-> w, path |-> imagePaths[w], err |-> uerr[w]]}
              /\ UNCHANGED results
         ELSE /\ results' = (imagePaths[w] :> uinfo[w]) @@ results
              /\ UNCHANGED errChan
    /\ semaphore' = semaphore - 1
    /\ upc' = [upc EXCEPT ![w] = "exited"]
    /\ UNCHANGED <<clientVars, cfgVars, svcVars, cacheVars, batchCtx, mpc, retResults, retErrs, draft,
                   store, fsVars, workerVars, countVars, pubVars>>

\* wg.Wait() is over when every goroutine has called wg.Done()
AllDone_AnyDone == \E w \in Workers : upc[w] = "exited"
AllDone == \A w \in Workers : upc[w] = "exited"

\* return results, fmt.Errorf("upload errors: %v", errs): the map is
\* returned with or without errors
ReturnedResults_NilOnError(res, errs) == IF errs # {} THEN << >> ELSE res
ReturnedResults(res, errs) == res

\* wg.Wait(); close(errChan); the errors are collected; return results and
\* "upload errors: ..." if there is any
UploadImagesConcurrently_Return ==
    /\ mpc = "wait"
    /\ AllDone
    /\ retResults' = ReturnedResults(results, errChan)
    /\ retErrs' = errChan
    /\ mpc' = "batch_ret"
    /\ UNCHANGED <<clientVars, cfgVars, svcVars, cacheVars, batchCtx, upc, semaphore, results,
                   errChan, draft, store, fsVars, workerVars, countVars, pubVars>>

\* ------------------------------------------------- AddDraft / DoRequest
\* urlMap[originalURL] = info.URL for every entry of imageMap
URLMap(imageMap) == [r \in DOMAIN imageMap |-> imageMap[r].URL]

\* UpdateImageURLs: strings.ReplaceAll(content, "(old)", "(new)") for
\* every entry of urlMap.  The content is seen as the sequence of its
\* image references, in the order of article.Images: a reference that
\* is a key of urlMap becomes the URL of the map, any other stays
UpdateImageURLs(images, urlMap) ==
    [k \in DOMAIN images |->
        IF images[k] \in DOMAIN urlMap
          THEN [rewritten |-> TRUE, ref |-> images[k], url |-> urlMap[images[k]]]
          ELSE [rewritten |-> FALSE, ref |-> images[k], url |-> << >>]]

\* if info, ok := imageMap[images[0]]; ok { thumbMediaID = info.MediaID }
ThumbMediaID_AnyImage(images, imageMap) ==
    IF DOMAIN imageMap # {}
      THEN imageMap[CHOOSE r \in DOMAIN imageMap : TRUE].MediaID
      ELSE << >>
ThumbMediaID(images, imageMap) ==
    IF images[1] \in DOMAIN imageMap THEN imageMap[images[1]].MediaID
                                     ELSE << >>

\* PublishArticle logs the upload errors and goes on: the references of
\* the images in imageMap are rewritten, Beautify succeeds or
\* PublishArticle returns its error, the article is built, and the draft
\* is added through DoRequest, which starts with GetAccessToken
PublishArticle_AddDraft(beautified) ==
    /\ mpc = "batch_ret"
    /\ pc[Main] = "idle"
    /\ upc' = [w \in Workers |-> "none"]
    /\ IF beautified
         THEN /\ mpc' = "draft_token"
              /\ draft' = [ThumbMediaID |->
                               ThumbMediaID(imagePaths, retResults),
                           Content |->
                               UpdateImageURLs(imagePaths,
                                               URLMap(retResults))]
              /\ pc' = [pc EXCEPT ![Main] = "rlock"]
              /\ ctxDone' = [ctxDone EXCEPT ![Main] = batchCtx]
              /\ result' = [result EXCEPT ![Main] = NoResult]
              /\ UNCHANGED pubErr
         ELSE /\ mpc' = "done"
              /\ pubErr' = WErr("beautify html", "beautify", 0, "beautify")
              /\ UNCHANGED <<pc, ctxDone, result, draft>>
    /\ uinfo' = [w \in Workers |-> NoInfo]
    /\ uerr' = [w \in Workers |-> NoWErr]
    /\ upost' = [w \in Workers |-> NoPost]
    /\ cacheHit' = [w \in Workers |-> FALSE]
    /\ downloads' = [w \in Workers |-> 0]
    /\ tokenCalls' = [w \in Workers |-> 0]
    /\ posts' = [w \in Workers |-> 0]
    /\ results' = << >>
    /\ errChan' = {}
    /\ retErrs' = {}
    /\ UNCHANGED <<now, maxRetries, tokenVars, tokenMutex, histVars,
                   retryVars>>
    /\ UNCHANGED <<cfgVars, svcVars, cacheVars, batchCtx, semaphore,
                   retResults, store, fsVars, uploads, publishes, processed>>

\* DoRequest: token, err := c.GetAccessToken(ctx); on an error return it,
\* otherwise doRequestWithRetry(ctx, "POST", url, body, &resp) with
\* body = bytes.NewReader(data), the marshalled articles
DoRequest_Token ==
    /\ mpc = "draft_token"
    /\ pc[Main] = "done"
    /\ result' = [result EXCEPT ![Main] = NoResult]
    /\ IF result[Main].kind # "ok"
         THEN /\ pubErr' = WErr("add draft", result[Main].kind,
                                result[Main].cause.status,
                                Root(result[Main].cause))
              /\ mpc' = "done"
              /\ pc' = [pc EXCEPT ![Main] = "idle"]
              /\ UNCHANGED <<ctxDone, bodyLeft>>
         ELSE /\ mpc' = "draft_req"
              /\ pc' = [pc EXCEPT ![Main] = "loop"]
              /\ ctxDone' = [ctxDone EXCEPT ![Main] = batchCtx]
              /\ bodyLeft' = [bodyLeft EXCEPT ![Main] = DraftBodyLen]
              /\ UNCHANGED pubErr
    /\ UNCHANGED <<now, maxRetries, tokenVars, tokenMutex, histVars, i,
                   lastErr, waitUntil, waits, outcomes, attempts, sentBy,
                   response, reqErr, bodySent>>
    /\ UNCHANGED <<cfgVars, svcVars, cacheVars, batchCtx, upc, semaphore, batchVars, store,
                   fsVars, workerVars, countVars, publishes, processed>>

\* if resp.ErrCode != 0 { return "", fmt.Errorf("add draft error: ...") }
DraftRejected_IgnoreErrCode(e, resp) == e # NoErr
DraftRejected(e, resp) == e # NoErr \/ resp.ErrCode # 0

\* doRequestWithRetry returned to AddDraft: an error of the request or a
\* non-zero errcode is returned by PublishArticle; otherwise the document
\* is marked as processed (MarkFileProcessed, whose failure is only logged)
AddDraft_Return(mark) ==
    /\ mpc = "draft_req"
    /\ pc[Main] = "ret"
    /\ mpc' = "done"
    /\ pc' = [pc EXCEPT ![Main] = "idle"]
    /\ IF DraftRejected(reqErr[Main], response[Main])
         THEN /\ pubErr' =
                    IF reqErr[Main] # NoErr
                      THEN WErr("add draft", reqErr[Main].kind,
                                reqErr[Main].status, Root(reqErr[Main]))
                      ELSE WErr("add draft", "add draft error",
                                response[Main].ErrCode, "errcode")
              /\ UNCHANGED <<processed, file>>
         ELSE /\ pubErr' = NoWErr
              /\ IF mark = "no digest"
                   THEN UNCHANGED <<processed, file>>
                   ELSE /\ processed' = TRUE
                        /\ file' = WriteFile(file, Entries(store, TRUE), mark)
    /\ ctxDone' = [ctxDone EXCEPT ![Main] = FALSE]
    /\ i' = [i EXCEPT ![Main] = 0]
    /\ lastErr' = [lastErr EXCEPT ![Main] = NoErr]
    /\ waitUntil' = [waitUntil EXCEPT ![Main] = 0]
    /\ waits' = [waits EXCEPT ![Main] = << >>]
    /\ outcomes' = [outcomes EXCEPT ![Main] = << >>]
    /\ attempts' = [attempts EXCEPT ![Main] = 0]
    /\ sentBy' = [sentBy EXCEPT ![Main] = 0]
    /\ response' = [response EXCEPT ![Main] = ZeroResponse]
    /\ reqErr' = [reqErr EXCEPT ![Main] = NoErr]
    /\ bodyLeft' = [bodyLeft EXCEPT ![Main] = 0]
    /\ bodySent' = [bodySent EXCEPT ![Main] = << >>]
    /\ UNCHANGED <<now, maxRetries, tokenVars, tokenMutex, histVars, result>>
    /\ UNCHANGED <<cfgVars, svcVars, cacheProcVars, batchCtx, upc, semaphore,
                   batchVars, store, fsVars, workerVars, countVars, publishes>>

\* ---------------------------------------------------------------- Cleanup
\* os.Remove(path) fails on the files of stuck, which stay on disk;
\* every other tracked file is removed; a file that is gone already
\* (os.IsNotExist) is no error
RemovedFiles(tracked, stuck) == tracked \ stuck

CleanupError(tracked, stuck, onDisk) ==
    IF (tracked \cap stuck) \cap onDisk # {} THEN "cleanup errors" ELSE "nil"

\* main's deferred mediaManager.Cleanup(), or a later call of it: under
\* m.mutex every path of m.tempFiles is removed, m.tempFiles is
\* truncated to length 0, and the failures are returned as one error
Cleanup(stuck) ==
    /\ mpc \in {"idle", "done"}
    /\ cleanups < MaxCleanups
    /\ stuck \subseteq (tempFiles \cap disk)
    /\ disk' = disk \ RemovedFiles(tempFiles, stuck)
    /\ tempFiles' = {}
    /\ cleanups' = cleanups + 1
    /\ cleanRet' = CleanupError(tempFiles, stuck, disk)
    /\ UNCHANGED <<clientVars, cfgVars, svcVars, cacheVars, batchCtx, mpc,
                   upc, semaphore, batchVars, store, workerVars, countVars,
                   pubVars>>

\* ------------------------------------------------------------------ spec
PublishNext ==
    \/ TimerTick
    \/ CancelBatch
    \/ PublishArticle_Start(TRUE, TRUE)
    \/ \E w \in Workers : Worker_Acquire(w)
    \/ \E w \in Workers : UploadImage_CacheCheck(w)
    \/ \E w \in Workers : downloadImage_Do(w)
    \/ \E w \in Workers : \E st \in DownloadOutcomes :
           downloadImage_Response(w, st)
    \/ \E w \in Workers : \E ok \in BOOLEAN : downloadImage_Copy(w, ok)
    \/ \E w \in Workers : \E opened \in BOOLEAN :
           UploadPermanentMedia_Open(w, opened)
    \/ \E w \in Workers : UploadPermanentMedia_Post(w)
    \/ \E w \in Workers : UploadPermanentMedia_PostFails(w)
    \/ \E w \in Workers : \E r \in PublishUploadResponses :
           UploadPermanentMedia_Response(w, r)
    \/ \E w \in Workers : UploadImage_CacheSet(w, "written")
    \/ \E w \in Workers : Worker_Return(w)
    \/ UploadImagesConcurrently_Return
    \/ PublishArticle_AddDraft(TRUE)
    \/ DoRequest_Token
    \/ AddDraft_Return("written")
    \/ \E stuck \in SUBSET TempPaths : Cleanup(stuck)
    \/ \E p \in Procs : GetAccessToken_RLock(p)
    \/ \E p \in Procs : GetAccessToken_Lock(p)
    \/ \E p \in Procs : doRequestWithRetry_Loop(p)
    \/ \E p \in Procs : doRequestWithRetry_Backoff(p)
    \/ \E p \in Procs : doRequestWithRetry_Do(p)
    \/ \E p \in Procs : doRequestWithRetry_DoFails(p)
    \/ \E p \in Procs : \E r \in PublishResponses :
           doRequestWithRetry_Response(p, r)
    \/ \E p \in Procs : refreshToken_Return(p)

SpecPublish == PublishInit /\ [][PublishNext]_vars

PublishTypeOK ==
    /\ TypeOK
    /\ maxConcurrent \in 0..MaxConcurrent
    /\ imagePaths \in [Workers -> Refs]
    /\ semaphore \in 0..NumTargets
    /\ mpc \in {"idle", "called", "wait", "batch_ret", "draft_token",
                "draft_req", "done"}
    /\ upc \in [Workers -> {"none", "spawned", "cache", "download",
                            "dl_inflight", "dl_copy", "open", "token",
                            "post_inflight", "set", "ret", "exited"}]
    /\ publishes \in 0..MaxPublishes
    /\ tempFiles \subseteq TempPaths
    /\ disk \subseteq TempPaths
    /\ cleanups \in 0..MaxCleanups
    /\ cleanRet \in {"none", "nil", "cleanup errors"}

\* ======================================================================
\* Properties of the media manager and of the upload and draft calls
\* ======================================================================
\* a worker is inside UploadImage: it holds a slot of the semaphore
InPipeline(w) ==
    upc[w] \in {"cache", "download", "dl_inflight", "dl_copy", "open",
                "token", "post_inflight", "set", "ret"}

Running == {w \in Workers : InPipeline(w)}

\* C11: with a limit K >= 1, at no point of a batch are more than K
\* executions of UploadImage running at the same time.
C11_BoundedConcurrency ==
    maxConcurrent >= 1 => Cardinality(Running) <= maxConcurrent

\* the limit is below the number of targets, it is reached, and a target
\* is waiting for a slot
C11_Witness ==
    /\ maxConcurrent >= 1
    /\ maxConcurrent < NumTargets
    /\ Cardinality(Running) = maxConcurrent
    /\ \E w \in Workers : upc[w] = "spawned"

\* the image paths of the batch are pairwise different
DistinctTargets ==
    \A a, b \in Workers : imagePaths[a] = imagePaths[b] => a = b

\* C12: an image whose key is in the cache is answered from the cache:
\* the cache check of UploadImage ends the pipeline at once, without a
\* download, a token acquisition, an upload request or a temporary file;
\* so, for distinct targets, once the upload of an image has succeeded
\* and was cached, no later call sends another upload request for it.
C12_DedupShortCircuit ==
    [][/\ \A w \in Workers :
            /\ ( /\ upc[w] = "cache"
                 /\ upc'[w] # "cache"
                 /\ imageDigest(imagePaths[w]) \in DOMAIN store )
               => /\ cacheHit'[w]
                  /\ upc'[w] = "ret"
                  /\ downloads'[w] = 0 /\ tokenCalls'[w] = 0 /\ posts'[w] = 0
                  /\ uploads' = uploads
                  /\ sent' = sent
                  /\ disk' = disk /\ tempFiles' = tempFiles
            /\ ( cacheHit[w] /\ upc[w] = "ret" /\ upc'[w] # "ret" )
               => /\ upc'[w] = "exited"
                  /\ downloads[w] = 0 /\ tokenCalls[w] = 0 /\ posts[w] = 0
                  /\ uploads' = uploads
       /\ DistinctTargets =>
            \A r \in Refs :
                imageDigest(r) \in DOMAIN store =>
                    /\ uploads[r] >= 1
                    /\ uploads'[r] = uploads[r]
      ]_vars

\* the second call for a document with two distinct images, both uploaded
\* once by the first call: a worker was answered from the cache
C12_Witness ==
    /\ publishes = 2
    /\ DistinctTargets
    /\ \A r \in Refs : uploads[r] = 1
    /\ \E w \in Workers : cacheHit[w] /\ upc[w] = "exited"

\* C13: what UploadImage stores for an upload result is read back by
\* parseCachedInfo without error as the same media id and the same url.
C13_CachedInfoRoundTrip ==
    \A w \in Workers :
        (upc[w] = "set") =>
            LET parsed == parseCachedInfo(FormatInfo(uinfo[w]))
            IN  /\ parsed.err = "nil"
                /\ parsed.info = uinfo[w]

\* the errors of the aggregate error that name the path of worker w
ErrorsOf(errs, w) == {e \in errs : e.path = imagePaths[w]}

\* UploadImage of worker w returned an error
Failed(w) == uerr[w] # NoWErr

\* C14: a target whose UploadImage fails does not abort or change a
\* sibling: the step in which it fails or reports its error leaves every
\* other worker and the ctx of the batch as they were; and when the batch
\* of distinct targets returns with a failed target, that target is named
\* in the aggregate error and every target that did not fail itself is in
\* the returned map, uploaded exactly once unless answered from the cache.
C14_PartialFailureIsolation ==
    [][/\ \A w \in Workers :
            ( \/ ~Failed(w) /\ uerr'[w] # NoWErr
              \/ Failed(w) /\ upc[w] = "ret" /\ upc'[w] = "exited" )
            => /\ batchCtx' = batchCtx
               /\ \A v \in Workers \ {w} :
                    /\ upc'[v] = upc[v]
                    /\ uerr'[v] = uerr[v]
                    /\ uinfo'[v] = uinfo[v]
                    /\ posts'[v] = posts[v]
                    /\ pc'[v] = pc[v]
                    /\ ctxDone'[v] = ctxDone[v]
       /\ ( mpc' = "batch_ret" /\ DistinctTargets
            /\ \E w \in Workers : uerr'[w] # NoWErr )
          => \A w \in Workers :
                IF uerr'[w] # NoWErr
                  THEN /\ imagePaths[w] \notin DOMAIN retResults'
                       /\ \E e \in retErrs' :
                            e.path = imagePaths[w] /\ e.err = uerr'[w]
                  ELSE /\ imagePaths[w] \in DOMAIN retResults'
                       /\ retResults'[imagePaths[w]] = uinfo'[w]
                       /\ posts'[w] = (IF cacheHit'[w] THEN 0 ELSE 1)
      ]_vars

\* a batch of two distinct targets has returned: the download of one was
\* answered with an error status, the other was uploaded once and is in
\* the returned map
C14_Witness ==
    /\ mpc = "batch_ret"
    /\ DistinctTargets
    /\ ~batchCtx
    /\ \E w, v \in Workers :
        /\ uerr[w].kind = "http error"
        /\ \E e \in retErrs : e.path = imagePaths[w]
        /\ ~Failed(v) /\ posts[v] = 1 /\ ~cacheHit[v]
        /\ imagePaths[v] \in DOMAIN retResults

\* C15: when UploadImagesConcurrently returns for distinct targets, every
\* worker has exited and every target is either in the returned map with
\* the result of its UploadImage or named once in the aggregate error
\* with the error of its UploadImage, never both and never neither, also
\* after a cancellation; an entry of the result map stays as it is until
\* the call returns it.
C15_EveryTargetAccounted ==
    [][/\ ( mpc' = "batch_ret" /\ DistinctTargets )
          => \A w \in Workers :
                /\ upc'[w] = "exited"
                /\ IF uerr'[w] = NoWErr
                     THEN /\ imagePaths[w] \in DOMAIN retResults'
                          /\ retResults'[imagePaths[w]] = uinfo'[w]
                          /\ ErrorsOf(retErrs', w) = {}
                     ELSE /\ imagePaths[w] \notin DOMAIN retResults'
                          /\ Cardinality(ErrorsOf(retErrs', w)) = 1
                          /\ \A e \in ErrorsOf(retErrs', w) :
                                e.err = uerr'[w]
       /\ ( mpc = "wait" /\ mpc' = "wait" /\ DistinctTargets )
          => \A r \in DOMAIN results :
                r \in DOMAIN results' /\ results'[r] = results[r]
       /\ ( mpc = "wait" /\ mpc' = "batch_ret" /\ DistinctTargets )
          => \A r \in DOMAIN results :
                r \in DOMAIN retResults' /\ retResults'[r] = results[r]
      ]_vars

\* a cancelled batch has returned: one target had been uploaded before
\* the cancellation and is in the map, the other failed by cancellation
C15_Witness ==
    /\ mpc = "batch_ret"
    /\ DistinctTargets
    /\ batchCtx
    /\ \E w, v \in Workers :
        /\ ~Failed(w) /\ imagePaths[w] \in DOMAIN retResults
        /\ uerr[v].root = "context canceled"
        /\ \E e \in retErrs : e.path = imagePaths[v]

\* C16: when UploadImagesConcurrently has returned, no temporary file
\* created by a download is left in the temp directory.
C16_NoTempFileAfterBatch ==
    mpc = "batch_ret" => disk = {}

\* C17: once the ctx of the batch is cancelled, every wait and every
\* request of a worker that was in flight ends with a cancellation
\* error: the image download, the backoff wait and the request of the
\* token fetch, and the upload request (for which a failure of the
\* transport itself is accepted as well).
C17_CancelEndsInFlight ==
    [][\A w \in Workers :
        /\ ( batchCtx /\ upc[w] = "dl_inflight" /\ upc'[w] # "dl_inflight" )
           => uerr'[w].root = "context canceled"
        /\ ( batchCtx /\ ctxDone[w] /\ pc[w] = "wait" /\ pc'[w] # "wait" )
           => reqErr'[w] = CtxErr
        /\ ( batchCtx /\ ctxDone[w] /\ pc[w] = "inflight"
             /\ pc'[w] # "inflight" )
           => lastErr'[w] = CtxErr
        /\ ( batchCtx /\ upc[w] = "post_inflight"
             /\ upc'[w] # "post_inflight" )
           => /\ Failed(w)'
              /\ \/ uerr'[w].root = "context canceled"
                 \/ uerr'[w].kind = "upload media"
      ]_vars

\* C18: an upload request that ended in a connection failure or a 5xx
\* response was sent MaxRetries+1 times before UploadPermanentMedia
\* returned.
C18_UploadIsRetried ==
    \A w \in Workers :
        ( /\ upc[w] \in {"set", "ret"}
          /\ posts[w] >= 1
          /\ \/ uerr[w].kind = "upload media"
             \/ upost[w].status >= ServerErrorFloor )
        => posts[w] = maxRetries + 1

\* C19: an upload answered with a status outside 200..299 makes
\* UploadPermanentMedia return an error, whatever the body: the target
\* gets no entry in the result map and none in the cache.
C19_Non2xxUploadFails ==
    \A w \in Workers :
        ( /\ upc[w] \in {"set", "ret", "exited"}
          /\ upost[w].status # NoResponse
          /\ upost[w].status \notin 200..299 )
        => /\ Failed(w)
           /\ upc[w] # "set"

\* C20: a body with errcode # 0, also on HTTP 200, makes each of the three
\* remote operations return an error and update nothing: refreshToken
\* keeps the stored token and expiry, UploadPermanentMedia fails so that
\* UploadImage writes no cache entry and the worker no result, AddDraft
\* fails so that PublishArticle returns the error and does not mark the
\* document as processed.
C20_ErrCodeIsError ==
    [][/\ \A p \in Procs :
            ( /\ pc[p] = "ret" /\ tokenMutex = p /\ pc'[p] = "done"
              /\ reqErr[p] = NoErr /\ response[p].ErrCode # 0 )
            => /\ result'[p].kind = "wechat api error"
               /\ token' = token
               /\ expiresAt' = expiresAt
       /\ \A w \in Workers :
            /\ ( /\ upc[w] = "post_inflight" /\ upc'[w] # "post_inflight"
                 /\ upost'[w].kind = "errcode" )
               => /\ uerr'[w].kind = "wechat error"
                  /\ upc'[w] = "ret"
                  /\ store' = store
            /\ ( /\ upc[w] = "ret" /\ upc'[w] # "ret"
                 /\ uerr[w].kind = "wechat error" )
               => /\ upc'[w] = "exited"
                  /\ store' = store
                  /\ results' = results
                  /\ \E e \in errChan' : e.worker = w /\ e.err = uerr[w]
       /\ ( /\ mpc = "draft_req" /\ pc[Main] = "ret" /\ mpc' # "draft_req"
            /\ reqErr[Main] = NoErr /\ response[Main].ErrCode # 0 )
          => /\ pubErr'.kind = "add draft error"
             /\ processed' = processed
             /\ mpc' = "done"
      ]_vars

\* PublishArticle returned the errcode of the draft endpoint and the
\* document is not marked; an image whose upload request of the same run
\* failed has no cache entry and is not in the result map
C20_Witness ==
    /\ mpc = "done"
    /\ pubErr.kind = "add draft error"
    /\ ~processed
    /\ token # 0
    /\ \E w \in Workers :
        /\ uploads[imagePaths[w]] = 1
        /\ imageDigest(imagePaths[w]) \notin DOMAIN store
        /\ imagePaths[w] \notin DOMAIN retResults

\* ======================================================================
\* The entry points of a publish request: the HTTP endpoint
\* POST /api/articles/publish, the MCP tool publish_article and the loop
\* of the command line, each around PublishArticle.
\* ======================================================================
EntryPoints == {"http", "mcp", "cli"}

\* the request is answered without calling PublishArticle
\*   http, mcp: if !force { published, _ := IsFileProcessed(path); ... }
\*   cli:       processed, _ := IsFileProcessed(article); if processed ...
Skips_Never(e, f, published) == FALSE
Skips(e, f, published) ==
    IF e = "cli" THEN published ELSE ~f /\ published

\* the answer of entry point e for an outcome: the HTTP endpoint answers
\* 409, 500 or 200; the MCP tool answers a text, the command line counts
AnswerOf(e, o) ==
    IF e = "http"
      THEN MkReply(o, IF o = "skipped" THEN StatusConflict
                      ELSE IF o = "failed" THEN StatusInternalServerError
                      ELSE StatusOK)
      ELSE MkReply(o, 0)

\* a request arrives at entry point e with force = f (the command line
\* has no force argument); the digest of the file can be computed or not,
\* and an error of IsFileProcessed is dropped; the request is answered at
\* once or PublishArticle is called
Request_Begin(e, f, digested) ==
    /\ mpc \in {"idle", "done"}
    /\ entry = "none" \/ reply # NoReply
    /\ e = "cli" => ~f
    /\ entry' = e
    /\ force' = f
    /\ IF Skips(e, f, digested /\ processed)
         THEN /\ reply' = AnswerOf(e, "skipped")
              /\ UNCHANGED mpc
         ELSE /\ reply' = NoReply
              /\ mpc' = "called"
    /\ UNCHANGED <<clientVars, cfgVars, cacheVars, batchCtx, upc, semaphore,
                   batchVars, store, fsVars, workerVars, countVars, pubVars,
                   httpVars>>

\* PublishArticle returned to the entry point, which answers
Request_Reply ==
    /\ entry # "none"
    /\ reply = NoReply
    /\ mpc = "done"
    /\ reply' = AnswerOf(entry, IF pubErr = NoWErr THEN "ok" ELSE "failed")
    /\ UNCHANGED <<clientVars, cfgVars, cacheVars, entry, force, batchCtx,
                   mpc, upc, semaphore, batchVars, store, fsVars, workerVars,
                   countVars, pubVars, httpVars>>

\* answers of the remote side while requests are served
ServiceResponses ==
    {r \in Responses : r.status = StatusOK /\ r.expires \in {0, 7200}
                       /\ r.kind # "garbage"}
ServiceUploadResponses ==
    {r \in UploadResponses : r.status = StatusOK
                             /\ r.kind \in {"media", "errcode"}}

\* the service starts with the cache NewManager loaded: the document is
\* marked in the store file or there is no store file; requests are not
\* retried (publish.max_retries = 0); the file of the document can be read
\* when a request arrives
ServiceStart ==
    /\ ClientInit
    /\ maxRetries = 0
    /\ managerUp = "up"
    /\ cpc = [u \in CacheUsers |-> "idle"]
    /\ cop = [u \in CacheUsers |-> NoCall]
    /\ csnap = [u \in CacheUsers |-> {}]
    /\ cret = [u \in CacheUsers |-> NoReturn]
    /\ cmutex = 0
    /\ creaders = {}
    /\ processed \in BOOLEAN
    /\ file = IF processed THEN ListFile(Entries(<< >>, TRUE)) ELSE AbsentFile
    /\ maxConcurrent = MaxConcurrent
    /\ imagePaths \in [Workers -> Refs]
    /\ batchCtx = FALSE
    /\ mpc = "idle"
    /\ upc = [w \in Workers |-> "none"]
    /\ semaphore = 0
    /\ results = << >>
    /\ errChan = {}
    /\ retResults = << >>
    /\ retErrs = {}
    /\ draft = NoDraft
    /\ store = << >>
    /\ tempFiles = {}
    /\ disk = {}
    /\ cleanups = 0
    /\ cleanRet = "none"
    /\ uinfo = [w \in Workers |-> NoInfo]
    /\ uerr = [w \in Workers |-> NoWErr]
    /\ upost = [w \in Workers |-> NoPost]
    /\ cacheHit = [w \in Workers |-> FALSE]
    /\ downloads = [w \in Workers |-> 0]
    /\ tokenCalls = [w \in Workers |-> 0]
    /\ posts = [w \in Workers |-> 0]
    /\ uploads = [r \in Refs |-> 0]
    /\ publishes = 0
    /\ pubErr = NoWErr

ServiceInit == ServiceIdle /\ ServiceStart

\* the steps of a request that was accepted, up to its answer
PublishSteps ==
    \/ Request_Reply
    \/ /\ mpc = "called"
       /\ \E digested, parsed \in BOOLEAN :
              PublishArticle_Start(digested, parsed)
    \/ \E w \in Workers : Worker_Acquire(w)
    \/ \E w \in Workers : UploadImage_CacheCheck(w)
    \/ \E w \in Workers : downloadImage_Do(w)
    \/ \E w \in Workers : \E st \in {200, 404} :
           downloadImage_Response(w, st)
    \/ \E w \in Workers : downloadImage_Copy(w, TRUE)
    \/ \E w \in Workers : UploadPermanentMedia_Open(w, TRUE)
    \/ \E w \in Workers : UploadPermanentMedia_Post(w)
    \/ \E w \in Workers : \E r \in ServiceUploadResponses :
           UploadPermanentMedia_Response(w, r)
    \/ \E w \in Workers : \E saved \in {"written", "denied"} :
           UploadImage_CacheSet(w, saved)
    \/ \E w \in Workers : Worker_Return(w)
    \/ UploadImagesConcurrently_Return
    \/ \E beautified \in BOOLEAN : PublishArticle_AddDraft(beautified)
    \/ DoRequest_Token
    \/ \E mark \in MarkOutcomes : AddDraft_Return(mark)
    \/ \E p \in Procs : GetAccessToken_RLock(p)
    \/ \E p \in Procs : GetAccessToken_Lock(p)
    \/ \E p \in Procs : doRequestWithRetry_Loop(p)
    \/ \E p \in Procs : doRequestWithRetry_Do(p)
    \/ \E p \in Procs : doRequestWithRetry_DoFails(p)
    \/ \E p \in Procs : \E r \in ServiceResponses :
           doRequestWithRetry_Response(p, r)
    \/ \E p \in Procs : refreshToken_Return(p)

ServiceNext ==
    \/ \E e \in EntryPoints : \E f \in BOOLEAN : Request_Begin(e, f, TRUE)
    \/ PublishSteps

SpecService == ServiceInit /\ [][ServiceNext]_vars

ServiceTypeOK ==
    /\ PublishTypeOK
    /\ entry \in {"none"} \cup EntryPoints
    /\ force \in BOOLEAN
    /\ reply \in {NoReply} \cup
                 {AnswerOf(e, o) : e \in EntryPoints,
                                   o \in {"skipped", "ok", "failed"}}

\* ======================================================================
\* Properties of the cache entries, of the processed mark and of the
\* entry points
\* ======================================================================
\* C21: an entry for an image is written to the cache only by a pipeline
\* whose upload request was answered with success by the remote side
\* (a 2xx response without errcode), after exactly one upload request;
\* a pipeline that failed writes nothing.
C21_CachedOnlyAfterRemoteSuccess ==
    [][\A r \in Refs :
        ( /\ imageDigest(r) \in DOMAIN store'
          /\ \/ imageDigest(r) \notin DOMAIN store
             \/ store'[imageDigest(r)] # store[imageDigest(r)] )
        => \E w \in Workers :
              /\ imagePaths[w] = r
              /\ upc[w] = "set" /\ upc'[w] = "ret"
              /\ ~Failed(w)
              /\ posts[w] = 1
              /\ upost[w].status \in 200..299
              /\ upost[w].kind # "errcode"
      ]_vars

\* a step of PublishArticle in which it returns
PublishReturns == mpc # "done" /\ mpc' = "done"

\* C22: the document is marked only by a PublishArticle whose draft
\* request came back without error and with errcode 0; a PublishArticle
\* that fails (digest, parsing, beautifying, AddDraft) returns an error and
\* leaves the mark as it was; and a PublishArticle that finds the document
\* unmarked never skips it.
C22_MarkedOnlyAfterDraft ==
    [][/\ ( processed' /\ ~processed )
          => /\ mpc = "draft_req" /\ pc[Main] = "ret"
             /\ reqErr[Main] = NoErr
             /\ response[Main].ErrCode = 0
             /\ PublishReturns
             /\ pubErr' = NoWErr
       /\ ( PublishReturns /\ mpc = "batch_ret" )
          => pubErr'.op = "beautify html"
       /\ ( PublishReturns /\ mpc = "draft_req"
            /\ (reqErr[Main] # NoErr \/ response[Main].ErrCode # 0) )
          => pubErr'.op = "add draft"
       /\ ( PublishReturns /\ pubErr' # NoWErr )
          => /\ processed' = processed
             /\ file' = file
       /\ ( PublishReturns /\ mpc = "called" /\ ~processed )
          => pubErr'.op \in {"check cache", "parse markdown"}
       /\ ( mpc = "called" /\ ~processed /\ mpc' = "wait" )
          => \A w \in Workers : upc'[w] = "spawned"
      ]_vars

\* a second PublishArticle of the document ran up to AddDraft again and
\* was refused again: the document is still not marked
C22_Witness ==
    /\ publishes = 2
    /\ mpc = "done"
    /\ pubErr.kind = "add draft error"
    /\ ~processed
    /\ \A e \in file.entries : e.key # DocDigest

\* C23: a request with force = true for a marked document, through the
\* HTTP endpoint or the MCP tool, is not skipped: PublishArticle goes on
\* to the image uploads (or fails), it does not return at once without
\* an error.
C23_ForceRepublishes ==
    [][( /\ mpc = "called" /\ mpc' # "called"
         /\ entry \in {"http", "mcp"}
         /\ force
         /\ processed )
       => \/ mpc' = "wait"
          \/ pubErr' # NoWErr
      ]_vars

\* a step in which an entry point takes up a request
RequestBegins ==
    /\ mpc \in {"idle", "done"}
    /\ entry = "none" \/ reply # NoReply
    /\ <<entry, force, reply, mpc>>' # <<entry, force, reply, mpc>>

\* C24: a request without force for a marked document is answered at
\* once, 409 Conflict by the HTTP endpoint and as skipped by the MCP tool
\* and the command line; PublishArticle is not called, nothing is
\* uploaded or drafted and the cache stays as it is.
C24_SkipWhenMarked ==
    [][( RequestBegins /\ processed /\ ~force' )
       => /\ reply' = AnswerOf(entry', "skipped")
          /\ entry' = "http" => reply'.status = StatusConflict
          /\ mpc' = mpc
          /\ UNCHANGED <<store, file, processed, uploads, sent, publishes,
                         upc, pc>>
      ]_vars

\* the HTTP endpoint answered 409 for a document that this run had
\* published before
C24_Witness ==
    /\ entry = "http"
    /\ ~force
    /\ reply = MkReply("skipped", StatusConflict)
    /\ processed
    /\ publishes >= 1
    /\ \E e \in file.entries : e.key = DocDigest

\* ======================================================================
\* The cache manager on its own: goroutines calling Set, Get, Size and
\* Clear on one Manager, and restarts of the process
\* ======================================================================
\* the keys the program uses: digests of images and of the document
CacheKeys == {imageDigest(r) : r \in Refs} \cup {DocDigest}

\* the values the program stores under a key: "mediaID|url" of an upload
\* of the image, "path:time" for the document
ValuesOf(k) ==
    IF k = DocDigest THEN {DocValue, DocValueRaw}
    ELSE {FormatInfo(MediaInfo(r, n)) :
             r \in {q \in Refs : imageDigest(q) = k}, n \in 1..2}

CacheCalls ==
    UNION {{[op |-> "set", key |-> k, value |-> v] : v \in ValuesOf(k)} :
              k \in CacheKeys}
    \cup {[op |-> "get", key |-> k, value |-> << >>] : k \in CacheKeys}
    \cup {[op |-> "size", key |-> << >>, value |-> << >>],
          [op |-> "clear", key |-> << >>, value |-> << >>]}

\* m.store[key] = &CacheEntry{Key: key, Value: value, ...}
StorePut_KeepOld(st, k, v) ==
    IF k \in DOMAIN st THEN st
    ELSE [q \in DOMAIN st \cup {k} |-> IF q = k THEN v ELSE st[q]]
StorePut(st, k, v) ==
    [q \in DOMAIN st \cup {k} |-> IF q = k THEN v ELSE st[q]]

\* what Set and Clear do to the map before they save
StoreAfter_ClearKeeps(st, call) ==
    IF call.op = "clear" THEN st
    ELSE StorePut(st, call.key, call.value)
StoreAfter(st, call) ==
    IF call.op = "clear" THEN << >>
    ELSE StorePut(st, call.key, call.value)

\* m.mutex.Lock() and m.mutex.RLock() go through
CanLock_Always == TRUE
CanLock == cmutex = 0 /\ creaders = {}
CanRLock == cmutex = 0

\* err != nil && !os.IsNotExist(err) after load
LoadError_AbsentToo(f) == f.kind # "list"
LoadError(f) == f.kind = "unreadable"

\* NewManager: the process starts (again); goroutines of an earlier
\* process are gone
NewManager ==
    /\ \A u \in CacheUsers : cpc[u] = "idle"
    /\ managerUp' = IF LoadError(file) THEN "error" ELSE "up"
    /\ store' = IF file.kind = "list" /\ ~LoadError(file)
                THEN LoadStore(file.entries) ELSE << >>
    /\ processed' = (DocDigest \in DOMAIN store')
    /\ UNCHANGED <<clientVars, svcVars, pipelineVars, file, cpc, cop,
                   csnap, cret, cmutex, creaders>>

\* the operator removes a store file the process could not load
StoreFile_Remove ==
    /\ managerUp = "error"
    /\ file' = AbsentFile
    /\ UNCHANGED <<clientVars, svcVars, pipelineVars, store, processed,
                   cacheProcVars>>

\* a goroutine calls Set, Get, Size or Clear
Manager_Call(u, c) ==
    /\ managerUp = "up"
    /\ cpc[u] = "idle"
    /\ cop' = [cop EXCEPT ![u] = c]
    /\ cpc' = [cpc EXCEPT ![u] =
                  IF c.op \in {"set", "clear"} THEN "lock" ELSE "rlock"]
    /\ UNCHANGED <<clientVars, svcVars, pipelineVars, store, processed,
                   file, managerUp, csnap, cret, cmutex, creaders>>

\* m.mutex.Lock() in Set and Clear
Manager_Lock(u) ==
    /\ cpc[u] = "lock"
    /\ CanLock
    /\ cmutex' = u
    /\ cpc' = [cpc EXCEPT ![u] = "write"]
    /\ UNCHANGED <<clientVars, svcVars, pipelineVars, store, processed,
                   file, managerUp, cop, csnap,
                   cret, creaders>>

\* the assignment to the map in Set, the new map in Clear
Manager_Write(u) ==
    /\ cpc[u] = "write"
    /\ store' = StoreAfter(store, cop[u])
    /\ processed' = (DocDigest \in DOMAIN store')
    /\ cpc' = [cpc EXCEPT ![u] = "collect"]
    /\ UNCHANGED <<clientVars, svcVars, pipelineVars, file, managerUp, cop,
                   csnap, cret, cmutex, creaders>>

\* save: the entries of the map are collected and marshalled
save_Collect(u) ==
    /\ cpc[u] = "collect"
    /\ csnap' = [csnap EXCEPT ![u] = Entries(store, processed)]
    /\ cpc' = [cpc EXCEPT ![u] = "save"]
    /\ UNCHANGED <<clientVars, svcVars, pipelineVars, store, processed,
                   file, managerUp, cop, cret,
                   cmutex, creaders>>

\* save: os.WriteFile, and the error Set or Clear is going to return
save_WriteFile(u, outcome) ==
    /\ cpc[u] = "save"
    /\ file' = WriteFile(file, csnap[u], outcome)
    /\ cret' = [cret EXCEPT ![u] = [NoReturn EXCEPT !.err = SaveError(outcome)]]
    /\ cpc' = [cpc EXCEPT ![u] = "unlock"]
    /\ UNCHANGED <<clientVars, svcVars, pipelineVars, store, processed,
                   managerUp, cop, csnap, cmutex,
                   creaders>>

\* defer m.mutex.Unlock(): Set or Clear returns what cret holds
Manager_Unlock(u) ==
    /\ cpc[u] = "unlock"
    /\ cmutex' = 0
    /\ cpc' = [cpc EXCEPT ![u] = "idle"]
    /\ cop' = [cop EXCEPT ![u] = NoCall]
    /\ csnap' = [csnap EXCEPT ![u] = {}]
    /\ cret' = [cret EXCEPT ![u] = NoReturn]
    /\ UNCHANGED <<clientVars, svcVars, pipelineVars, store, processed,
                   file, managerUp, creaders>>

\* m.mutex.RLock() in Get and Size
Manager_RLock(u) ==
    /\ cpc[u] = "rlock"
    /\ CanRLock
    /\ creaders' = creaders \cup {u}
    /\ cpc' = [cpc EXCEPT ![u] = "read"]
    /\ UNCHANGED <<clientVars, svcVars, pipelineVars, store, processed,
                   file, managerUp, cop, csnap,
                   cret, cmutex>>

\* entry, exists := m.store[key] in Get; len(m.store) in Size
Manager_Read(u) ==
    /\ cpc[u] = "read"
    /\ cret' = [cret EXCEPT ![u] =
                  IF cop[u].op = "size"
                  THEN [NoReturn EXCEPT !.size = Cardinality(DOMAIN store)]
                  ELSE IF cop[u].key \in DOMAIN store
                  THEN [NoReturn EXCEPT !.found = TRUE,
                                        !.value = store[cop[u].key]]
                  ELSE NoReturn]
    /\ cpc' = [cpc EXCEPT ![u] = "runlock"]
    /\ UNCHANGED <<clientVars, svcVars, pipelineVars, store, processed,
                   file, managerUp, cop, csnap,
                   cmutex, creaders>>

\* defer m.mutex.RUnlock(): Get or Size returns what cret holds
Manager_RUnlock(u) ==
    /\ cpc[u] = "runlock"
    /\ creaders' = creaders \ {u}
    /\ cpc' = [cpc EXCEPT ![u] = "idle"]
    /\ cop' = [cop EXCEPT ![u] = NoCall]
    /\ cret' = [cret EXCEPT ![u] = NoReturn]
    /\ UNCHANGED <<clientVars, svcVars, pipelineVars, store, processed,
                   file, managerUp, csnap, cmutex>>

\* the process has not started; the store file is absent, or holds an
\* empty list, or is not a JSON list
CacheInit ==
    /\ ClientInit
    /\ maxRetries = 0
    /\ MediaIdle
    /\ ServiceIdle
    /\ file \in {AbsentFile, BadFile, ListFile({})}
    /\ managerUp = "down"
    /\ cpc = [u \in CacheUsers |-> "idle"]
    /\ cop = [u \in CacheUsers |-> NoCall]
    /\ csnap = [u \in CacheUsers |-> {}]
    /\ cret = [u \in CacheUsers |-> NoReturn]
    /\ cmutex = 0
    /\ creaders = {}

CacheNext ==
    \/ NewManager
    \/ StoreFile_Remove
    \/ \E u \in CacheUsers : \E c \in CacheCalls : Manager_Call(u, c)
    \/ \E u \in CacheUsers : Manager_Lock(u)
    \/ \E u \in CacheUsers : Manager_Write(u)
    \/ \E u \in CacheUsers : save_Collect(u)
    \/ \E u \in CacheUsers : \E outcome \in SaveOutcomes :
           save_WriteFile(u, outcome)
    \/ \E u \in CacheUsers : Manager_Unlock(u)
    \/ \E u \in CacheUsers : Manager_RLock(u)
    \/ \E u \in CacheUsers : Manager_Read(u)
    \/ \E u \in CacheUsers : Manager_RUnlock(u)

SpecCache == CacheInit /\ [][CacheNext]_vars

CacheTypeOK ==
    /\ managerUp \in {"down", "up", "error"}
    /\ file.kind \in {"absent", "unreadable", "list"}
    /\ \A e \in file.entries : e.key \in CacheKeys
    /\ DOMAIN store \subseteq CacheKeys
    /\ \A k \in DOMAIN store : store[k] \in ValuesOf(k) \cup
                                  {MarshalString(v) : v \in ValuesOf(k)}
    /\ processed = (DocDigest \in DOMAIN store)
    /\ cpc \in [CacheUsers -> {"idle", "lock", "write", "collect", "save",
                               "unlock", "rlock", "read", "runlock"}]
    /\ \A u \in CacheUsers : cop[u] \in CacheCalls \cup {NoCall}
    /\ cmutex \in CacheUsers \cup {0}
    /\ creaders \subseteq CacheUsers

\* ======================================================================
\* Properties of the cache manager
\* ======================================================================
\* steps of a goroutine inside its call
CallWrites(u) == cpc[u] = "write" /\ cpc'[u] = "collect"
CallSaves(u) == cpc[u] = "save" /\ cpc'[u] = "unlock"
CallReads(u) == cpc[u] = "read" /\ cpc'[u] = "runlock"
CallReturns(u) == cpc[u] \in {"unlock", "runlock"} /\ cpc'[u] = "idle"
\* a step of NewManager that is not a stuttering step
Restarts ==
    \/ managerUp' # managerUp
    \/ (\A u \in CacheUsers : cpc[u] = "idle") /\ store' # store

\* C25: Set(k, v) leaves the map with one entry for k, holding v, and
\* every other entry as it was; when k was there already the number of
\* entries stays the same. Get returns the value the map holds for its
\* key and Size the number of keys, and the store file never lists a key
\* twice.
C25_SetOverwrites ==
    [][\A u \in CacheUsers :
        /\ ( CallWrites(u) /\ cop[u].op = "set" )
           => /\ DOMAIN store' = DOMAIN store \cup {cop[u].key}
              /\ store'[cop[u].key] = cop[u].value
              /\ \A q \in DOMAIN store \ {cop[u].key} : store'[q] = store[q]
              /\ cop[u].key \in DOMAIN store
                 => Cardinality(DOMAIN store') = Cardinality(DOMAIN store)
        /\ ( CallReads(u) /\ cop[u].op = "get" )
           => /\ cret'[u].found = (cop[u].key \in DOMAIN store)
              /\ cret'[u].found => cret'[u].value = store[cop[u].key]
        /\ ( CallReads(u) /\ cop[u].op = "size" )
           => cret'[u].size = Cardinality(DOMAIN store)
        /\ \A k \in CacheKeys :
              Cardinality({e \in file'.entries : e.key = k}) <= 1
      ]_vars

\* a second upload result was set for an image whose first result is
\* still what the file holds: one entry in memory, with the new value
C25_Witness ==
    \E u \in CacheUsers : \E r \in Refs :
        /\ cpc[u] = "collect"
        /\ cop[u] = [op |-> "set", key |-> imageDigest(r),
                     value |-> FormatInfo(MediaInfo(r, 2))]
        /\ store[imageDigest(r)] = FormatInfo(MediaInfo(r, 2))
        /\ file = ListFile({[key |-> imageDigest(r),
                             value |-> FormatInfo(MediaInfo(r, 1))]})
        /\ Cardinality(DOMAIN store) = 1

\* C26: when Set or Clear has written the store file and is about to
\* return nil, the file is a list that loads to the map held in memory:
\* the same keys with the same values.
C26_RestartSeesSameMap ==
    [][\A u \in CacheUsers :
        ( CallSaves(u) /\ cret'[u].err = "nil" )
        => /\ file'.kind = "list"
           /\ LoadStore(file'.entries) = store'
      ]_vars

\* C27: when os.WriteFile fails inside Set(k, v), Set returns the error
\* "write cache file" and the map holds k with v from the assignment
\* until Set returns, every other entry being as it was before the call.
C27_FailedSaveKeepsMemory ==
    [][\A u \in CacheUsers :
        /\ ( CallWrites(u) /\ cop[u].op = "set" )
           => \A q \in DOMAIN store \ {cop[u].key} :
                 q \in DOMAIN store' /\ store'[q] = store[q]
        /\ ( CallSaves(u) /\ cop[u].op = "set" /\ file' # ListFile(csnap[u]) )
           => /\ cret'[u].err = "write cache file"
              /\ store' = store
              /\ cop[u].key \in DOMAIN store
              /\ store[cop[u].key] = cop[u].value
        /\ ( CallReturns(u) /\ cop[u].op = "set" /\ cret[u].err # "nil" )
           => /\ store' = store
              /\ cop[u].key \in DOMAIN store
              /\ store[cop[u].key] = cop[u].value
      ]_vars

\* Set is about to return the error of save: the key is in memory and
\* not in the store file
C27_Witness ==
    \E u \in CacheUsers :
        /\ cpc[u] = "unlock"
        /\ cop[u].op = "set"
        /\ cret[u].err = "write cache file"
        /\ cop[u].key \in DOMAIN store
        /\ store[cop[u].key] = cop[u].value
        /\ \A e \in file.entries : e.key # cop[u].key

\* C28: when Clear has written the store file and is about to return
\* nil, the map is empty (Size 0, every Get misses) and the store file is
\* the empty list; NewManager on that file gives an empty cache.
C28_ClearEmpties ==
    [][/\ \A u \in CacheUsers :
            ( CallSaves(u) /\ cop[u].op = "clear" /\ cret'[u].err = "nil" )
            => /\ store' = << >>
               /\ Cardinality(DOMAIN store') = 0
               /\ ~processed'
               /\ file' = ListFile({})
       /\ ( Restarts /\ file = ListFile({}) )
          => managerUp' = "up" /\ store' = << >>
      ]_vars

\* Clear is about to return nil while another goroutine waits for the
\* lock with a Set
C28_Witness ==
    \E u, w \in CacheUsers :
        /\ cpc[u] = "unlock"
        /\ cop[u].op = "clear"
        /\ cret[u].err = "nil"
        /\ store = << >>
        /\ file = ListFile({})
        /\ cpc[w] = "lock"
        /\ cop[w].op = "set"

\* C29: NewManager succeeds with an empty map when there is no store
\* file, and fails exactly when there is a store file that cannot be read
\* as a list.
C29_AbsentFileIsEmptyCache ==
    [][Restarts
       => /\ file.kind = "absent"
             => managerUp' = "up" /\ store' = << >> /\ ~processed'
          /\ file.kind = "list" => managerUp' = "up"
          /\ managerUp' = "error" <=> file.kind = "unreadable"
      ]_vars

\* Size returns 0 in a process that found no store file
C29_Witness ==
    \E u \in CacheUsers :
        /\ managerUp = "up"
        /\ file = AbsentFile
        /\ cpc[u] = "runlock"
        /\ cop[u].op = "size"
        /\ cret[u].size = 0

\* C30: a goroutine between Lock and Unlock is alone in the manager, the
\* map changes only in a step of the holder of the exclusive lock, it is
\* read only while nobody holds that lock, and a save that succeeds
\* writes every key of the map, so a Set of another goroutine is never
\* lost from the file.
C30_MapUnderLock ==
    [][/\ cmutex # 0 => creaders = {}
       /\ \A u \in CacheUsers :
            /\ cpc[u] \in {"write", "collect", "save", "unlock"}
               => cmutex = u
            /\ cpc[u] \in {"read", "runlock"} => u \in creaders
            /\ CallReads(u) => cmutex = 0
            /\ ( CallSaves(u) /\ cret'[u].err = "nil" )
               => /\ file' = ListFile(Entries(store, processed))
                  /\ {e.key : e \in file'.entries} = DOMAIN store
       /\ ( store' # store /\ ~Restarts )
          => \E u \in CacheUsers : cmutex = u /\ CallWrites(u)
       /\ \A k \in DOMAIN store \ DOMAIN store' :
             \/ Restarts
             \/ \E u \in CacheUsers : CallWrites(u) /\ cop[u].op = "clear"
      ]_vars

\* two goroutines set distinct keys at the same time: the second is about
\* to return, and memory and file hold both keys
C30_Witness ==
    \E u, w \in CacheUsers :
        /\ cpc[u] = "unlock"
        /\ cop[u].op = "set"
        /\ cret[u].err = "nil"
        /\ cpc[w] = "lock"
        /\ cop[w].op = "set"
        /\ cop[w].key # cop[u].key
        /\ cop[w].key \in DOMAIN store
        /\ {e.key : e \in file.entries} = DOMAIN store
        /\ Cardinality(DOMAIN store) = 2

\* ======================================================================
\* Order of the steps of one target
\* ======================================================================
\* the upload request of w was answered with success by the remote side
RemoteSuccess(w) ==
    /\ posts[w] >= 1
    /\ upost[w].status \in 200..299
    /\ upost[w].kind # "errcode"

\* C31: for each target, the upload request is sent only after the
\* download of a remote reference has written and tracked its temporary
\* file, and the cache entry is written and the result put into the map
\* only after the upload request was answered with success (a target
\* served from the cache has no upload of its own).
C31_StepsInOrder ==
    [][\A w \in Workers :
        /\ ( posts'[w] = posts[w] + 1 /\ IsURL(imagePaths[w]) )
           => /\ downloads[w] = 1
              /\ TempPath(imagePaths[w]) \in disk
              /\ TempPath(imagePaths[w]) \in tempFiles
        /\ ( upc[w] = "set" /\ upc'[w] = "ret" )
           => RemoteSuccess(w)
        /\ ( upc[w] = "ret" /\ upc'[w] = "exited"
             /\ ~Failed(w) /\ ~cacheHit[w] )
           => /\ imagePaths[w] \in DOMAIN results'
              /\ RemoteSuccess(w)
              /\ imageDigest(imagePaths[w]) \in DOMAIN store
      ]_vars

\* ======================================================================
\* Guarantees under concurrency
\* ======================================================================
\* the callers inside refreshToken: in doRequestWithRetry (loop head,
\* backoff wait, request in flight) or about to store its result
Refreshing == {p \in Callers : pc[p] \in {"loop", "wait", "do", "inflight", "ret"}}

\* C33: at most one caller is inside refreshToken, that caller holds the
\* exclusive lock, and the token and its expiry change only in the step
\* in which the holder of the lock leaves refreshToken.
C33_OneRefreshInFlight ==
    /\ [](/\ Cardinality(Refreshing) <= 1
          /\ \A p \in Refreshing : tokenMutex = p)
    /\ [][<<token, expiresAt>>' # <<token, expiresAt>>
          => \E p \in Callers :
                /\ tokenMutex = p
                /\ pc[p] = "ret" /\ pc'[p] = "done"
                /\ token' = response[p].AccessToken
         ]_vars

\* one caller waits in the backoff of its refresh while the other is
\* blocked at the exclusive lock
C33_Witness ==
    \E p, q \in Callers :
        /\ pc[p] = "wait"
        /\ tokenMutex = p
        /\ sentBy[p] = 1
        /\ pc[q] = "lock"

\* the upload requests sent in this batch for reference r
PostsFor(r) == {w \in Workers : imagePaths[w] = r /\ posts[w] >= 1}

\* C34: in one batch at most one upload request is sent for a reference,
\* however often it appears among the targets, and no two pipelines are
\* writing the temporary file of the same remote reference at a time.
C34_NoDuplicateUpload ==
    /\ \A r \in Refs : Cardinality(PostsFor(r)) <= 1
    /\ \A w, v \in Workers :
          ( w # v /\ imagePaths[w] = imagePaths[v] )
          => ~(upc[w] = "dl_copy" /\ upc[v] = "dl_copy")

\* C35: a caller of GetAccessToken whose context is done while it waits
\* for the exclusive lock is not blocked by the holder of the lock: it
\* has a step to take.
C35_CancelledWaiterNotBlocked ==
    \A p \in Callers :
        ( pc[p] = "lock" /\ ctxDone[p] /\ tokenMutex \notin {0, p} )
        => ENABLED GetAccessToken_Lock(p)

\* C36: while UploadImagesConcurrently waits and no goroutine holds a
\* slot, a goroutine that is still pending can take one, whatever the
\* configured limit.
C36_PendingTargetAdmitted ==
    ( /\ mpc = "wait"
      /\ semaphore = 0
      /\ \E w \in Workers : upc[w] = "spawned" )
    => \E w \in Workers : ENABLED Worker_Acquire(w)

\* C38: when doRequestWithRetry returns it has made at least one
\* attempt, and the error "max retries exceeded" wraps the failure of an
\* attempt.
C38_AtLeastOneAttempt ==
    \A p \in Callers :
        Returned(p)
        => /\ attempts[p] >= 1
           /\ reqErr[p].kind = "max retries exceeded"
              => reqErr[p].wraps # "nil"


\* ------------------------------------------------------------ claim C37
\* C37: every request that one call of doRequestWithRetry sends carries
\* the same body: a retried request is as long as the first request of
\* the call.
C37_RetrySendsSameBody ==
    \A p \in Procs : \A k \in 1..Len(bodySent[p]) :
        bodySent[p][k] = bodySent[p][1]


\* ------------------------------------------------------------ claim C39
\* C39: after Cleanup has returned without an error, no file that a
\* downloadImage call created is left on disk, the file of a download
\* whose body copy failed and of a download whose upload failed
\* included, and the list of tracked files is empty; a second Cleanup
\* returns nil and removes nothing.
C39_CleanupRemovesAll ==
    /\ (cleanups >= 1 /\ cleanRet = "nil") => (disk = {} /\ tempFiles = {})
    /\ cleanups >= 2 => cleanRet = "nil"


\* ------------------------------------------------------------ claim C40
\* the workers of UploadImage calls for the path r that returned no error
Uploaded(r) == {w \in Workers : imagePaths[w] = r /\ ~Failed(w)}

\* PublishArticle goes on after UploadImagesConcurrently returned
BuildsArticle == mpc = "batch_ret" /\ mpc' # "batch_ret"

Methods == {"GET", "POST", "OPTIONS"}

\* the patterns SetupRoutes registers behind authMiddleware
APIPaths ==
    {"/api/articles/list", "/api/articles/parse", "/api/articles/publish",
     "/api/images/upload", "/api/cache/status", "/api/cache/clear"}

\* the paths of the requests: /health, the API endpoints, and a path
\* that no pattern matches
Paths == {"/health"} \cup APIPaths \cup {"/api/missing"}

\* keys the server is started with: none, a plain key, and a key that
\* itself begins with "Bearer "
Bearer == "Bearer "
Keys == {EmptyString, <<"k">>, <<Bearer, "k">>}

\* values of the Authorization header: absent, the plain key, the key
\* after "Bearer ", after two of them, after "bearer ", and another key
AuthHeaders ==
    {EmptyString, <<"k">>, <<Bearer, "k">>, <<Bearer, Bearer, "k">>,
     <<"bearer ", "k">>, <<"x">>}

\* strings.TrimPrefix(s, prefix)
TrimPrefix(str, prefix) ==
    IF str # EmptyString /\ Head(str) = prefix THEN Tail(str) ELSE str

\* authMiddleware lets the request through: no key is configured, or the
\* header is not empty and equals the key once "Bearer " is trimmed
AuthPasses_AnyHeader(key, h) == key = EmptyString \/ h # EmptyString
AuthPasses(key, h) ==
    \/ key = EmptyString
    \/ h # EmptyString /\ TrimPrefix(h, Bearer) = key

\* what a handler answers without calling the publisher, the media
\* manager or Clear: 405 for a method that is not its own; the health
\* check and the cache status answer 200; list and parse answer 200, 400
\* (body) or 500 (files); upload and publish answer 400 for a body that
\* cannot be decoded or lacks its path
HandlerStatuses(r) ==
    IF r.path \in {"/health", "/api/cache/status"}
      THEN IF r.method = "GET" THEN {StatusOK} ELSE {StatusMethodNotAllowed}
    ELSE IF r.method # "POST" THEN {StatusMethodNotAllowed}
    ELSE IF r.path \in {"/api/articles/list", "/api/articles/parse"}
      THEN {StatusOK, StatusBadRequest, StatusInternalServerError}
    ELSE IF r.path \in {"/api/images/upload", "/api/articles/publish"}
      THEN {StatusBadRequest}
    ELSE {}

\* what the steps of the server leave alone
httpFrame == <<clientVars, cfgVars, cacheVars, batchCtx, mpc, upc, semaphore,
               batchVars, store, fsVars, workerVars, countVars, pubVars>>

\* a request arrives when the one before it has been answered
Server_Receive(m, p, h) ==
    /\ hpc \in {"idle", "replied"}
    /\ mpc \in {"idle", "done"}
    /\ requests < MaxRequests
    /\ requests' = requests + 1
    /\ req' = MkRequest(m, p, h)
    /\ hpc' = "cors"
    /\ hstatus' = 0
    /\ entry' = "none"
    /\ force' = FALSE
    /\ reply' = NoReply
    /\ UNCHANGED <<apiKey, httpFrame>>

\* corsMiddleware (around loggingMiddleware, which only logs): the CORS
\* headers are set; an OPTIONS request is answered 200 here, any other
\* goes on to the mux
corsMiddleware ==
    /\ hpc = "cors"
    /\ IF req.method = "OPTIONS"
         THEN hstatus' = StatusOK /\ hpc' = "replied"
         ELSE hstatus' = hstatus /\ hpc' = "mux"
    /\ UNCHANGED <<entry, force, reply, apiKey, req, requests, httpFrame>>

\* the ServeMux: /health goes to its handler, an API pattern to
\* authMiddleware around its handler, any other path is not found
ServeMux ==
    /\ hpc = "mux"
    /\ IF req.path = "/health"
         THEN hstatus' = hstatus /\ hpc' = "handler"
         ELSE IF req.path \in APIPaths
           THEN hstatus' = hstatus /\ hpc' = "auth"
           ELSE hstatus' = StatusNotFound /\ hpc' = "replied"
    /\ UNCHANGED <<entry, force, reply, apiKey, req, requests, httpFrame>>

\* authMiddleware: next(w, r), or 401 "Missing Authorization header" or
\* "Invalid API key"
authMiddleware ==
    /\ hpc = "auth"
    /\ IF AuthPasses(apiKey, req.auth)
         THEN hstatus' = hstatus /\ hpc' = "handler"
         ELSE hstatus' = StatusUnauthorized /\ hpc' = "replied"
    /\ UNCHANGED <<entry, force, reply, apiKey, req, requests, httpFrame>>

\* a handler answers on its own
Handler_Respond(st) ==
    /\ hpc = "handler"
    /\ entry = "none"
    /\ mpc \in {"idle", "done"}
    /\ st \in HandlerStatuses(req)
    /\ hstatus' = st
    /\ hpc' = "replied"
    /\ UNCHANGED <<entry, force, reply, apiKey, req, requests, httpFrame>>

\* handleClearCache: s.cacheManager.Clear() empties the store and saves
\* it; 500 when the save failed
handleClearCache(outcome) ==
    /\ hpc = "handler"
    /\ req.path = "/api/cache/clear"
    /\ req.method = "POST"
    /\ store' = << >>
    /\ processed' = FALSE
    /\ file' = WriteFile(file, Entries(store', processed'), outcome)
    /\ hstatus' = IF SaveError(outcome) = "nil"
                    THEN StatusOK ELSE StatusInternalServerError
    /\ hpc' = "replied"
    /\ UNCHANGED <<entry, force, reply, apiKey, req, requests, clientVars,
                   cfgVars, cacheProcVars, batchCtx, mpc, upc, semaphore,
                   batchVars, fsVars, workerVars, countVars, publishes,
                   pubErr>>

\* handleUploadImage: s.mediaManager.UploadImage(ctx, req.ImagePath), for
\* the first image of the configuration
handleUploadImage_Call ==
    /\ hpc = "handler"
    /\ req.path = "/api/images/upload"
    /\ req.method = "POST"
    /\ mpc \in {"idle", "done"}
    /\ mpc' = "upload"
    /\ batchCtx' = FALSE
    /\ upc' = [w \in Workers |-> IF w = 1 THEN "cache" ELSE "none"]
    /\ uinfo' = [w \in Workers |-> NoInfo]
    /\ uerr' = [w \in Workers |-> NoWErr]
    /\ upost' = [w \in Workers |-> NoPost]
    /\ cacheHit' = [w \in Workers |-> FALSE]
    /\ downloads' = [w \in Workers |-> 0]
    /\ tokenCalls' = [w \in Workers |-> 0]
    /\ posts' = [w \in Workers |-> 0]
    /\ UNCHANGED <<svcVars, clientVars, cfgVars, cacheVars, semaphore,
                   batchVars, store, fsVars, uploads, pubVars>>

\* UploadImage returned to handleUploadImage: 500 on an error, else the
\* ImageInfo with 200
handleUploadImage_Reply ==
    /\ hpc = "handler"
    /\ mpc = "upload"
    /\ upc[1] = "ret"
    /\ hstatus' = IF Failed(1) THEN StatusInternalServerError ELSE StatusOK
    /\ hpc' = "replied"
    /\ mpc' = "idle"
    /\ upc' = [w \in Workers |-> "none"]
    /\ uinfo' = [w \in Workers |-> NoInfo]
    /\ uerr' = [w \in Workers |-> NoWErr]
    /\ upost' = [w \in Workers |-> NoPost]
    /\ cacheHit' = [w \in Workers |-> FALSE]
    /\ downloads' = [w \in Workers |-> 0]
    /\ tokenCalls' = [w \in Workers |-> 0]
    /\ posts' = [w \in Workers |-> 0]
    /\ UNCHANGED <<entry, force, reply, apiKey, req, requests, clientVars,
                   cfgVars, cacheVars, batchCtx, semaphore, batchVars, store,
                   fsVars, uploads, pubVars>>

\* handlePublishArticle with a body it can decode: the request is
\* answered 409 at once or PublishArticle is called
handlePublishArticle(f) ==
    /\ hpc = "handler"
    /\ req.path = "/api/articles/publish"
    /\ req.method = "POST"
    /\ entry = "none"
    /\ Request_Begin("http", f, TRUE)

\* respondError / respondSuccess of handlePublishArticle
handlePublishArticle_Respond ==
    /\ hpc = "handler"
    /\ entry = "http"
    /\ reply # NoReply
    /\ hstatus' = reply.status
    /\ hpc' = "replied"
    /\ UNCHANGED <<entry, force, reply, apiKey, req, requests, httpFrame>>

\* the server is started with or without an API key; the cache is empty
\* and the document has two images, the first one behind a URL
AuthInit ==
    /\ ServiceStart
    /\ ~processed
    /\ \A w \in Workers : imagePaths[w].remote <=> w = 1
    /\ entry = "none"
    /\ force = FALSE
    /\ reply = NoReply
    /\ apiKey \in Keys
    /\ HTTPIdle

AuthNext ==
    \/ \E m \in Methods : \E p \in Paths : \E h \in AuthHeaders :
           Server_Receive(m, p, h)
    \/ corsMiddleware
    \/ ServeMux
    \/ authMiddleware
    \/ \E st \in {StatusOK, StatusBadRequest, StatusMethodNotAllowed,
                   StatusInternalServerError} : Handler_Respond(st)
    \/ \E outcome \in {"written", "denied"} : handleClearCache(outcome)
    \/ handleUploadImage_Call
    \/ handleUploadImage_Reply
    \/ \E f \in BOOLEAN : handlePublishArticle(f)
    \/ handlePublishArticle_Respond
    \/ PublishSteps

SpecAuth == AuthInit /\ [][AuthNext]_vars

AuthTypeOK ==
    /\ TypeOK
    /\ mpc \in {"idle", "called", "wait", "batch_ret", "draft_token",
                "draft_req", "done", "upload"}
    /\ apiKey \in Keys
    /\ req \in {NoRequest} \cup
               {MkRequest(m, p, h) : m \in Methods, p \in Paths,
                                     h \in AuthHeaders}
    /\ hpc \in {"idle", "cors", "mux", "auth", "handler", "replied"}
    /\ hstatus \in {0, StatusOK, StatusBadRequest, StatusUnauthorized,
                    StatusNotFound, StatusMethodNotAllowed, StatusConflict,
                    StatusInternalServerError}
    /\ requests \in 0..MaxRequests


\* ------------------------------------------------------------ claim C32
\* the header is the key, or "Bearer " followed by the key
Authorized(key, h) == h = key \/ h = <<Bearer>> \o key

\* a request is inside the chain of SetupRoutes; it reaches a handler;
\* it is answered
InService == hpc \in {"cors", "mux", "auth", "handler"}
HandlerRuns == hpc # "handler" /\ hpc' = "handler"
Answered == hpc # "replied" /\ hpc' = "replied"

\* a request for an API endpoint of a server with a key, whose header is
\* neither the key nor "Bearer " and the key
Refused ==
    /\ apiKey # EmptyString
    /\ InService
    /\ req.path \in APIPaths
    /\ ~Authorized(apiKey, req.auth)

\* the handler of an API endpoint of a server with a key runs only for
\* an authorized header
OnlyAuthorizedReachHandler ==
    ( apiKey # EmptyString /\ HandlerRuns /\ req.path \in APIPaths )
       => Authorized(apiKey, req.auth)

\* a refused request reaches no handler, changes neither the cache nor
\* its file, and makes no call to the remote side
RefusedHasNoEffect ==
    Refused
       => /\ hpc' # "handler"
          /\ UNCHANGED <<store, file, processed, sent, uploads, downloads,
                         posts, tokenCalls, publishes, mpc, upc, pc, entry,
                         tempFiles, disk>>

\* /health goes from the mux to its handler whatever the header is, and
\* is never answered 401
HealthIsOpen ==
    ( InService /\ req.path = "/health" )
       => /\ hpc = "mux" => hpc' = "handler"
          /\ Answered => hstatus' # StatusUnauthorized

\* C32 as stated: with an API key, the handler of an API endpoint runs
\* only for a request whose Authorization header is the key or "Bearer "
\* followed by the key; every other request is answered 401, changes
\* nothing in the cache and calls nothing remote; /health needs no
\* authentication.
C32_OnlyKeyHoldersServed ==
    [][/\ OnlyAuthorizedReachHandler
       /\ RefusedHasNoEffect
       /\ ( Refused /\ Answered ) => hstatus' = StatusUnauthorized
       /\ HealthIsOpen
      ]_vars

\* C32, amended: as stated, except that a refused request whose method
\* is OPTIONS is answered 200 by the CORS middleware, before the key is
\* looked at; every other refused request is answered 401; neither
\* reaches a handler, changes the cache or calls anything remote.
C32_KeyHoldersOrPreflight ==
    [][/\ OnlyAuthorizedReachHandler
       /\ RefusedHasNoEffect
       /\ ( Refused /\ Answered )
          => hstatus' = IF req.method = "OPTIONS" THEN StatusOK
                                                  ELSE StatusUnauthorized
       /\ HealthIsOpen
      ]_vars

\* an authorized request filled the cache; then a POST to
\* /api/cache/clear with another key was answered 401 and the cache is
\* as it was
C32_Witness ==
    /\ apiKey # EmptyString
    /\ hpc = "replied"
    /\ hstatus = StatusUnauthorized
    /\ req.path = "/api/cache/clear"
    /\ req.method = "POST"
    /\ req.auth # EmptyString
    /\ ~Authorized(apiKey, req.auth)
    /\ store # << >>
    /\ file.entries # {}

====
